---- MODULE Spec2Model ----
(***************************************************************************)
(* Transform/Load engine of Suria: DimensionResolver and FactLoader        *)
(* (src/data/workflows/full_etl/loaders) over a relational store reached   *)
(* through BackendClient.  Python values are modelled as follows: text and *)
(* numeric cell values are strings, surrogate ids are positive integers    *)
(* and None for an id is NoId; a dict is a function whose DOMAIN is its    *)
(* key set; a table of the store is a set of rows, a row a function from   *)
(* column names to values, an absent column being SQL NULL.                *)
(***************************************************************************)
EXTENDS Integers, Sequences, FiniteSets, TLC

(* ------------------------------------------------------------------ *)
(* Bounds of the model                                                 *)
(* ------------------------------------------------------------------ *)
\* longest list of records handed to one load() call
MaxLen == 2
\* largest batch_size a loader is constructed with
MaxBatch == 2
\* load() calls in one behaviour
MaxLoads == 2
\* most raw records in one batch handed to transform()
MaxRows == 2

(* ------------------------------------------------------------------ *)
(* Python values                                                       *)
(* ------------------------------------------------------------------ *)
\* None where an integer id is expected (Optional[int])
NoId == 0
\* None where a text value is expected
PyNone == "<None>"
\* None where a dict is expected (record["data"] is None)
PyNoneDict == [NoneType |-> TRUE]
\* {}
EmptyDict == <<>>

Truthy(v) == v \notin {PyNone, ""}

\* dict.get(k, default)
DictGet(d, k, default) == IF k \in DOMAIN d THEN d[k] ELSE default

SeqToSet(s) == {s[i] : i \in 1..Len(s)}

MaxOf(S) == CHOOSE x \in S : \A y \in S : y <= x

(* ------------------------------------------------------------------ *)
(* Text conversions, tabulated over the strings of the model           *)
(* ------------------------------------------------------------------ *)
\* str.strip()
Strip(s) ==
  CASE s = " alfa " -> "alfa"
    [] s = " beta " -> "beta"
    [] s = " bogotá " -> "bogotá"
    [] s = " R14 " -> "R14"
    [] s = " " -> ""
    [] OTHER -> s

\* str.upper()
Upper(s) ==
  CASE s = "alfa" -> "ALFA"
    [] s = "beta" -> "BETA"
    [] s = " alfa " -> " ALFA "
    [] s = "Bogota" -> "BOGOTA"
    [] s = "bogota" -> "BOGOTA"
    [] s = "usaquen" -> "USAQUEN"
    [] s = "Usaquen" -> "USAQUEN"
    [] s = "Bogotá" -> "BOGOTÁ"
    [] s = "Usaquén" -> "USAQUÉN"
    [] OTHER -> s

\* remove_accents: NFD decomposition, then drop the combining marks
remove_accents(s) ==
  CASE s = "Bogotá" -> "Bogota"
    [] s = "bogotá" -> "bogota"
    [] s = "usaquén" -> "usaquen"
    [] s = "Usaquén" -> "Usaquen"
    [] s = "BOGOTÁ" -> "BOGOTA"
    [] s = "USAQUÉN" -> "USAQUEN"
    [] OTHER -> s

\* datetime.strptime(s, "%Y-%m-%d").date(); a string outside the table
\* raises ValueError
StrptimeTable ==
  [s \in {"2024-01-01", "2024-01-15", "2024-02-01", "2009-12-01"} |->
     CASE s = "2024-01-01" -> <<2024, 1, 1>>
       [] s = "2024-01-15" -> <<2024, 1, 15>>
       [] s = "2024-02-01" -> <<2024, 2, 1>>
       [] s = "2009-12-01" -> <<2009, 12, 1>>]

\* date(fecha.year, fecha.month, 1)
FirstOfMonth(d) == <<d[1], d[2], 1>>

\* date.isoformat() of a first-of-month date
Isoformat(d) ==
  CASE d = <<2024, 1, 1>> -> "2024-01-01"
    [] d = <<2024, 2, 1>> -> "2024-02-01"
    [] d = <<2009, 12, 1>> -> "2009-12-01"

\* float(value) of a numeric column; "" gives None, an unparsable text
\* raises ValueError, which the loader turns into None
ToFloat(v) ==
  CASE v = "10" -> "10.0"
    [] v = "20" -> "20.0"
    [] v = "-1" -> "-1.0"
    [] v = "5" -> "5.0"
    [] v = "nan" -> "nan"
    [] OTHER -> PyNone

\* sanitize_value: NaN and infinities become None
sanitize_value(v) == IF v \in {"nan", "inf", "-inf"} THEN PyNone ELSE v

(* ------------------------------------------------------------------ *)
(* The relational store behind BackendClient.client                    *)
(* ------------------------------------------------------------------ *)
\* "a,b,c".split(",")
SplitComma(s) ==
  CASE s = "tiempo_id,campo_id,tipo_hidrocarburo" ->
         <<"tiempo_id", "campo_id", "tipo_hidrocarburo">>
    [] s = "tiempo_id,territorio_id,escenario" ->
         <<"tiempo_id", "territorio_id", "escenario">>
    [] OTHER -> <<s>>

\* two rows agree on every column of cols (an absent column only matches
\* an absent column)
SameKey(r1, r2, cols) ==
  \A c \in cols :
    /\ (c \in DOMAIN r1) = (c \in DOMAIN r2)
    /\ (c \in DOMAIN r1) => (r1[c] = r2[c])

\* the id a table's sequence gives to the next inserted row
NextId(rows) == IF rows = {} THEN 1 ELSE MaxOf({r.id : r \in rows}) + 1

\* a statement that inserts every row, with no conflict target
InsertRow(rows, payload, on_conflict) ==
  LET new == payload @@ [id |-> NextId(rows)]
  IN  [rows |-> rows \cup {new}, data |-> new]

\* table(t).upsert(payload, on_conflict=cols).execute() for one row:
\* INSERT ... ON CONFLICT (cols) DO UPDATE SET <the payload's columns>
UpsertRow(rows, payload, on_conflict) ==
  LET cols == SeqToSet(SplitComma(on_conflict))
      hit == {r \in rows : SameKey(r, payload, cols)}
  IN  IF hit = {}
        THEN LET new == payload @@ [id |-> NextId(rows)]
             IN  [rows |-> rows \cup {new}, data |-> new]
        ELSE LET upd == {payload @@ r : r \in hit}
             IN  [rows |-> (rows \ hit) \cup upd,
                  data |-> CHOOSE r \in upd : TRUE]

\* a row the store refuses whatever the statement (a CHECK constraint:
\* a negative price)
StoreRejects(row) == DictGet(row, "precio_usd", PyNone) = "-1.0"

\* the four dimensions
Dims == {"tiempo", "territorio", "campo", "resolucion"}

\* What the store does wrong during one call; NoFault is a healthy store.
\*   preload   : the dimensions whose preload query raises
\*   select    : point lookups raise
\*   dim_upsert: "ok", "error" (the upsert raises), "duplicate" (it raises
\*               a duplicate-key error when the key's row exists)
\*   batch     : the batch numbers whose multi-row upsert raises
\*   fact_down : every fact upsert raises, batch or single row
NoFault ==
  [preload |-> {}, select |-> FALSE, dim_upsert |-> "ok", batch |-> {},
   fact_down |-> FALSE]

\* the store's reads all fail during the call
ReadsDown == [NoFault EXCEPT !.preload = Dims, !.select = TRUE]

\* the preload of the two growing dimensions fails
PreloadFails == [NoFault EXCEPT !.preload = {"campo", "resolucion"}]

\* dimension upserts raise
DimUpsertFails == [NoFault EXCEPT !.dim_upsert = "error"]

\* the preload of the growing dimensions fails and an upsert of an
\* existing key raises a duplicate-key error
DuplicateKey ==
  [NoFault EXCEPT !.preload = {"campo", "resolucion"}, !.dim_upsert = "duplicate"]

\* the first multi-row upsert of each table is hit by a transient failure
BatchFails == [NoFault EXCEPT !.batch = {1}]

\* every fact upsert raises
FactsDown == [NoFault EXCEPT !.fact_down = TRUE]

Faults ==
  {NoFault, ReadsDown, PreloadFails, DimUpsertFails, DuplicateKey, BatchFails,
   FactsDown}

\* the dimension queries and upserts of a call all answered
DimHealthy(f) == f.preload = {} /\ ~f.select /\ f.dim_upsert = "ok"

(* ------------------------------------------------------------------ *)
(* DimensionResolver                                                   *)
(* ------------------------------------------------------------------ *)
\* DimensionResolver.__init__ (the lookup/hit counters, which only feed
\* the log, are left out; client_ok is `self.client.client` being set)
NewResolver(client_ok) ==
  [client_ok |-> client_ok,
   tiempo_cache |-> EmptyDict,
   territorio_cache |-> EmptyDict,
   campo_cache |-> EmptyDict,
   resolucion_cache |-> EmptyDict,
   campos_created_ids |-> <<>>,
   resoluciones_created_ids |-> <<>>,
   territorios_not_found |-> {},
   stats |-> [campo_inserts |-> 0, resolucion_inserts |-> 0]]

\* what a resolver operation hands back: the store, the resolver, the
\* returned id and whether an exception left the operation
Ret(db, rs, ret, exc) == [db |-> db, rs |-> rs, ret |-> ret, exc |-> exc]

\* a resolver that creates the month it does not find
CreateTiempo(db, rs, fecha, f) ==
  IF fecha \notin DOMAIN StrptimeTable
    THEN Ret(db, rs, NoId, TRUE)
    ELSE
      LET iso == Isoformat(FirstOfMonth(StrptimeTable[fecha]))
          data == {r \in db.dim_tiempo : r.fecha = iso}
          new == [id |-> NextId(db.dim_tiempo), fecha |-> iso]
      IN  IF data # {}
            THEN Ret(db, rs, (CHOOSE r \in data : TRUE).id, FALSE)
            ELSE Ret([db EXCEPT !.dim_tiempo = @ \cup {new}], rs, new.id, FALSE)

\* a resolver that remembers the month it did not find
TiempoCachesMiss(db, rs, fecha, f) ==
  IF fecha \notin DOMAIN StrptimeTable
    THEN Ret(db, rs, NoId, TRUE)
    ELSE
      LET fecha_normalizada == FirstOfMonth(StrptimeTable[fecha])
          data == {r \in db.dim_tiempo : r.fecha = Isoformat(fecha_normalizada)}
          tiempo_id == IF data # {} THEN (CHOOSE r \in data : TRUE).id ELSE NoId
      IN  IF fecha_normalizada \in DOMAIN rs.tiempo_cache
            THEN Ret(db, rs, rs.tiempo_cache[fecha_normalizada], FALSE)
          ELSE IF ~rs.client_ok \/ f.select
            THEN Ret(db, rs, NoId, FALSE)
          ELSE Ret(db,
                   [rs EXCEPT !.tiempo_cache = (fecha_normalizada :> tiempo_id) @@ @],
                   tiempo_id, FALSE)

resolve_tiempo_id(db, rs, fecha, f) ==
  IF fecha \notin DOMAIN StrptimeTable
    THEN Ret(db, rs, NoId, TRUE)
    ELSE
      LET fecha_normalizada == FirstOfMonth(StrptimeTable[fecha])
      IN  IF fecha_normalizada \in DOMAIN rs.tiempo_cache
            THEN Ret(db, rs, rs.tiempo_cache[fecha_normalizada], FALSE)
          ELSE IF ~rs.client_ok \/ f.select
            THEN Ret(db, rs, NoId, FALSE)
          ELSE
            LET data == {r \in db.dim_tiempo :
                           r.fecha = Isoformat(fecha_normalizada)}
            IN  IF data # {}
                  THEN LET tiempo_id == (CHOOSE r \in data : TRUE).id
                       IN  Ret(db,
                               [rs EXCEPT !.tiempo_cache =
                                  (fecha_normalizada :> tiempo_id) @@ @],
                               tiempo_id, FALSE)
                  ELSE Ret(db, rs, NoId, FALSE)

\* a scan that keys the cache on the names as the store spells them
ExactScan(rows) ==
  [k \in {<<r.departamento, r.municipio>> : r \in rows} |->
     (CHOOSE r \in rows : <<r.departamento, r.municipio>> = k).id]

\* the cache a scan of dim_territorios builds: one entry per normalized
\* (departamento, municipio); of two rows with one key the later row of
\* the response wins
TerritorioScan(rows) ==
  LET keys == {<<Upper(remove_accents(r.departamento)),
                 Upper(remove_accents(r.municipio))>> : r \in rows}
  IN  [k \in keys |->
         MaxOf({r.id : r \in {x \in rows :
            <<Upper(remove_accents(x.departamento)),
              Upper(remove_accents(x.municipio))>> = k}})]

resolve_territorio_id(db, rs, departamento, municipio, f) ==
  LET departamento_norm ==
        Upper(remove_accents(Strip(IF Truthy(departamento) THEN departamento ELSE "")))
      municipio_norm ==
        Upper(remove_accents(Strip(IF Truthy(municipio) THEN municipio ELSE "")))
      cache_key == <<departamento_norm, municipio_norm>>
  IN  IF departamento_norm = "" \/ municipio_norm = ""
        THEN Ret(db, rs, NoId, FALSE)
      ELSE IF cache_key \in DOMAIN rs.territorio_cache
        THEN Ret(db, rs, rs.territorio_cache[cache_key], FALSE)
      ELSE IF DOMAIN rs.territorio_cache # {}
        THEN Ret(db,
                 [rs EXCEPT !.territorios_not_found = @ \cup {cache_key}],
                 NoId, FALSE)
      ELSE IF ~rs.client_ok \/ f.select
        THEN Ret(db, rs, NoId, FALSE)
      ELSE
        LET cache == TerritorioScan(db.dim_territorios)
            rs2 == [rs EXCEPT !.territorio_cache = cache @@ @]
        IN  IF cache_key \in DOMAIN cache
              THEN Ret(db, rs2, cache[cache_key], FALSE)
              ELSE Ret(db, rs2, NoId, FALSE)

\* the dim_campos row resolve_or_create_campo_id sends: only the
\* attributes that have a value
CampoData(nombre_campo, contrato, territorio_id, operador) ==
  [nombre_campo |-> nombre_campo, activo |-> TRUE]
    @@ (IF Truthy(contrato) THEN [contrato |-> Strip(contrato)] ELSE EmptyDict)
    @@ (IF Truthy(operador) THEN [operador |-> Strip(operador)] ELSE EmptyDict)
    @@ (IF territorio_id # NoId THEN [territorio_id |-> territorio_id] ELSE EmptyDict)

\* a plain INSERT of the row, with no conflict target
CampoInsert(rows, payload) ==
  LET new == payload @@ [id |-> NextId(rows)]
  IN  [rows |-> rows \cup {new}, data |-> new]

\* the statement that creates a dim_campos row: an upsert on nombre_campo
CampoWrite(rows, payload) == UpsertRow(rows, payload, "nombre_campo")

\* a resolver that counts the created row and forgets its id
CampoNotCached(rs, nombre_campo, campo_id) ==
  [rs EXCEPT !.stats.campo_inserts = @ + 1,
             !.campos_created_ids = Append(@, campo_id)]

\* the upsert answered: count the row, track its id, cache it
CampoCreated(rs, nombre_campo, campo_id) ==
  [rs EXCEPT !.stats.campo_inserts = @ + 1,
             !.campos_created_ids = Append(@, campo_id),
             !.campo_cache = (nombre_campo :> campo_id) @@ @]

resolve_or_create_campo_id(db, rs, nombre_campo_raw, contrato, territorio_id, operador, f) ==
  LET nombre_campo ==
        Upper(Strip(IF Truthy(nombre_campo_raw) THEN nombre_campo_raw ELSE ""))
  IN  IF nombre_campo = ""
        THEN Ret(db, rs, NoId, FALSE)
      ELSE IF nombre_campo \in DOMAIN rs.campo_cache
        THEN Ret(db, rs, rs.campo_cache[nombre_campo], FALSE)
      ELSE IF ~rs.client_ok
        THEN Ret(db, rs, NoId, FALSE)
      ELSE
        LET campo_data == CampoData(nombre_campo, contrato, territorio_id, operador)
            existing == {r \in db.dim_campos : r.nombre_campo = nombre_campo}
        IN  IF f.dim_upsert = "error"
              THEN Ret(db, rs, NoId, FALSE)
            ELSE IF f.dim_upsert = "duplicate" /\ existing # {}
              THEN \* except branch: the message names a duplicate, plain lookup
                   IF f.select
                     THEN Ret(db, rs, NoId, FALSE)
                     ELSE LET campo_id == (CHOOSE r \in existing : TRUE).id
                          IN  Ret(db,
                                  [rs EXCEPT !.campo_cache = (nombre_campo :> campo_id) @@ @],
                                  campo_id, FALSE)
            ELSE
              LET up == CampoWrite(db.dim_campos, campo_data)
                  campo_id == up.data.id
              IN  Ret([db EXCEPT !.dim_campos = up.rows],
                      CampoCreated(rs, nombre_campo, campo_id), campo_id, FALSE)

\* the dim_resoluciones row resolve_or_create_resolucion_id sends
ResolucionData(numero_resolucion, periodo_desde, periodo_hasta, url_pdf, source_id) ==
  [numero_resolucion |-> numero_resolucion,
   periodo_desde |-> IF Truthy(periodo_desde) THEN periodo_desde ELSE "2020-01-01",
   periodo_hasta |-> IF Truthy(periodo_hasta) THEN periodo_hasta ELSE "2030-12-31"]
    @@ (IF Truthy(url_pdf) THEN [url_pdf |-> url_pdf] ELSE EmptyDict)
    @@ (IF Truthy(source_id) THEN [source_id |-> source_id] ELSE EmptyDict)

\* a plain INSERT of the row, with no conflict target
ResolucionInsert(rows, payload) ==
  LET new == payload @@ [id |-> NextId(rows)]
  IN  [rows |-> rows \cup {new}, data |-> new]

\* the statement that creates a dim_resoluciones row
ResolucionWrite(rows, payload) == UpsertRow(rows, payload, "numero_resolucion")

resolve_or_create_resolucion_id(db, rs, numero_raw, periodo_desde, periodo_hasta, url_pdf, source_id, f) ==
  LET numero_resolucion == Strip(IF Truthy(numero_raw) THEN numero_raw ELSE "")
  IN  IF numero_resolucion = ""
        THEN Ret(db, rs, NoId, FALSE)
      ELSE IF numero_resolucion \in DOMAIN rs.resolucion_cache
        THEN Ret(db, rs, rs.resolucion_cache[numero_resolucion], FALSE)
      ELSE IF ~rs.client_ok
        THEN Ret(db, rs, NoId, FALSE)
      ELSE
        LET resolucion_data ==
              ResolucionData(numero_resolucion, periodo_desde, periodo_hasta, url_pdf, source_id)
            existing == {r \in db.dim_resoluciones : r.numero_resolucion = numero_resolucion}
        IN  IF f.dim_upsert = "error"
              THEN Ret(db, rs, NoId, FALSE)
            ELSE IF f.dim_upsert = "duplicate" /\ existing # {}
              THEN IF f.select
                     THEN Ret(db, rs, NoId, FALSE)
                     ELSE LET resolucion_id == (CHOOSE r \in existing : TRUE).id
                          IN  Ret(db,
                                  [rs EXCEPT !.resolucion_cache =
                                     (numero_resolucion :> resolucion_id) @@ @],
                                  resolucion_id, FALSE)
            ELSE
              LET up == ResolucionWrite(db.dim_resoluciones, resolucion_data)
                  resolucion_id == up.data.id
              IN  Ret([db EXCEPT !.dim_resoluciones = up.rows],
                      [rs EXCEPT
                         !.stats.resolucion_inserts = @ + 1,
                         !.resoluciones_created_ids = Append(@, resolucion_id),
                         !.resolucion_cache = (numero_resolucion :> resolucion_id) @@ @],
                      resolucion_id, FALSE)

\* a preload that leaves the dates out
PreloadNoDates(db, rs, f) == rs

\* preload_tiempo_cache(2010, 2036): rows with start_date <= fecha <= end_date
preload_tiempo_cache(db, rs, f) ==
  IF ~rs.client_ok \/ "tiempo" \in f.preload
    THEN rs
    ELSE
      LET data == {r \in db.dim_tiempo :
                     /\ StrptimeTable[r.fecha][1] >= 2010
                     /\ StrptimeTable[r.fecha][1] <= 2036}
          loaded == [k \in {StrptimeTable[r.fecha] : r \in data} |->
                       (CHOOSE r \in data : StrptimeTable[r.fecha] = k).id]
      IN  [rs EXCEPT !.tiempo_cache = loaded @@ @]

preload_territorio_cache(db, rs, f) ==
  IF ~rs.client_ok \/ "territorio" \in f.preload
    THEN rs
    ELSE [rs EXCEPT !.territorio_cache = TerritorioScan(db.dim_territorios) @@ @]

preload_campo_cache(db, rs, f) ==
  IF ~rs.client_ok \/ "campo" \in f.preload
    THEN rs
    ELSE
      LET loaded == [k \in {Upper(r.nombre_campo) : r \in db.dim_campos} |->
                       MaxOf({r.id : r \in {x \in db.dim_campos :
                                               Upper(x.nombre_campo) = k}})]
      IN  [rs EXCEPT !.campo_cache = loaded @@ @]

preload_resolucion_cache(db, rs, f) ==
  IF ~rs.client_ok \/ "resolucion" \in f.preload
    THEN rs
    ELSE
      LET loaded == [k \in {r.numero_resolucion : r \in db.dim_resoluciones} |->
                       (CHOOSE r \in db.dim_resoluciones : r.numero_resolucion = k).id]
      IN  [rs EXCEPT !.resolucion_cache = loaded @@ @]

preload_all_caches(db, rs, f) ==
  preload_resolucion_cache(db,
    preload_campo_cache(db,
      preload_territorio_cache(db,
        preload_tiempo_cache(db, rs, f), f), f), f)

\* Python's `dim.get(k1) or data.get(k2)`: the second operand is only
\* evaluated when the first is falsy, and raises AttributeError when data
\* is None
GetOr(dim, k1, data, k2) ==
  LET a == DictGet(dim, k1, PyNone)
  IN  IF Truthy(a) THEN [v |-> a, exc |-> FALSE]
      ELSE IF data = PyNoneDict THEN [v |-> PyNone, exc |-> TRUE]
      ELSE [v |-> DictGet(data, k2, PyNone), exc |-> FALSE]

NoFks == [tiempo_id |-> NoId, campo_id |-> NoId, territorio_id |-> NoId,
          resolucion_id |-> NoId]

\* what resolve_all_for_record hands back
RetFks(db, rs, fks, exc) == [db |-> db, rs |-> rs, fks |-> fks, exc |-> exc]

\* step 4 of resolve_all_for_record: resolve or create the resolution
ResolveAllResolucion(db, rs, record, fks, f) ==
  IF record.fact_table # "fact_oferta_gas"
    THEN RetFks(db, rs, fks, FALSE)
    ELSE
      LET resolucion_data == DictGet(record.dimensions, "resolucion", EmptyDict)
          numero == GetOr(resolucion_data, "numero_resolucion", record.data, "resolucion_number")
      IN  IF numero.exc THEN RetFks(db, rs, fks, TRUE)
          ELSE IF ~Truthy(numero.v) THEN RetFks(db, rs, fks, FALSE)
          ELSE IF record.data = PyNoneDict THEN RetFks(db, rs, fks, TRUE)
          ELSE
            LET r == resolve_or_create_resolucion_id(db, rs, numero.v,
                       DictGet(resolucion_data, "periodo_desde", PyNone),
                       DictGet(resolucion_data, "periodo_hasta", PyNone),
                       DictGet(resolucion_data, "url_pdf", PyNone),
                       DictGet(record.data, "source_id", PyNone), f)
            IN  RetFks(r.db, r.rs, [fks EXCEPT !.resolucion_id = r.ret], r.exc)

\* step 3: resolve or create the field
ResolveAllCampo(db, rs, record, fks, f) ==
  IF record.fact_table \notin {"fact_regalias", "fact_oferta_gas"}
    THEN ResolveAllResolucion(db, rs, record, fks, f)
    ELSE
      LET campo_data == DictGet(record.dimensions, "campo", EmptyDict)
          nombre_campo == GetOr(campo_data, "nombre_campo", record.data, "campo_nombre")
          contrato == GetOr(campo_data, "contrato", record.data, "contrato")
          operador == GetOr(campo_data, "operador", record.data, "operador")
      IN  IF nombre_campo.exc \/ contrato.exc \/ operador.exc
            THEN RetFks(db, rs, fks, TRUE)
          ELSE IF ~Truthy(nombre_campo.v)
            THEN ResolveAllResolucion(db, rs, record, fks, f)
          ELSE
            LET r == resolve_or_create_campo_id(db, rs, nombre_campo.v, contrato.v,
                                                fks.territorio_id, operador.v, f)
            IN  ResolveAllResolucion(r.db, r.rs, record,
                                     [fks EXCEPT !.campo_id = r.ret], f)

\* step 2: resolve the place
ResolveAllTerritorio(db, rs, record, fks, f) ==
  IF record.fact_table \notin {"fact_regalias", "fact_demanda_gas"}
    THEN ResolveAllCampo(db, rs, record, fks, f)
    ELSE
      LET territorio_data == DictGet(record.dimensions, "territorio", EmptyDict)
          departamento == GetOr(territorio_data, "departamento", record.data, "departamento")
          municipio == GetOr(territorio_data, "municipio", record.data, "municipio")
      IN  IF departamento.exc \/ municipio.exc
            THEN RetFks(db, rs, fks, TRUE)
          ELSE IF ~(Truthy(departamento.v) /\ Truthy(municipio.v))
            THEN ResolveAllCampo(db, rs, record, fks, f)
          ELSE
            LET r == resolve_territorio_id(db, rs, departamento.v, municipio.v, f)
            IN  ResolveAllCampo(r.db, r.rs, record,
                                [fks EXCEPT !.territorio_id = r.ret], f)

\* step 1 (the date) and then the rest
resolve_all_for_record(db, rs, record, f) ==
  LET tiempo_data == DictGet(record.dimensions, "tiempo", EmptyDict)
      fecha == GetOr(tiempo_data, "fecha", record.data, "tiempo_fecha")
  IN  IF fecha.exc THEN RetFks(db, rs, NoFks, TRUE)
      ELSE IF ~Truthy(fecha.v)
        THEN ResolveAllTerritorio(db, rs, record, NoFks, f)
      ELSE
        LET r == resolve_tiempo_id(db, rs, fecha.v, f)
        IN  IF r.exc THEN RetFks(r.db, r.rs, NoFks, TRUE)
            ELSE ResolveAllTerritorio(r.db, r.rs, record,
                                      [NoFks EXCEPT !.tiempo_id = r.ret], f)

(* ------------------------------------------------------------------ *)
(* FactLoader                                                          *)
(* ------------------------------------------------------------------ *)
\* FactLoader.UNIQUE_COLUMNS_BY_TABLE
UNIQUE_COLUMNS_BY_TABLE ==
  [t \in {"fact_regalias", "fact_demanda_gas"} |->
     IF t = "fact_regalias" THEN "tiempo_id,campo_id,tipo_hidrocarburo"
                            ELSE "tiempo_id,territorio_id,escenario"]

\* FactLoader.NUMERIC_COLUMNS
NUMERIC_COLUMNS ==
  {"precio_usd", "porcentaje_regalia", "produccion_gravable", "volumen_regalia",
   "valor_regalias_cop", "demanda_gbtud", "latitud", "longitud"}

\* the data columns _prepare_fact_record does not copy
DimensionColumns ==
  {"tiempo_fecha", "campo_nombre", "departamento", "municipio", "latitud",
   "longitud", "contrato"}

\* FactLoader.__init__: self.stats
NewStats ==
  [total_processed |-> 0, inserted |-> 0, duplicates_in_batch |-> 0,
   skipped_no_tiempo |-> 0, skipped_no_campo |-> 0, errors |-> 0]

\* FactLoader.__init__ (client_ok is `self.client.client` being set)
NewLoader(client_ok, batch_size) ==
  [client_ok |-> client_ok, batch_size |-> batch_size, stats |-> NewStats]

\* the value _prepare_fact_record stores for a data column, PyNone when
\* the column is left out
CopiedValue(col, value) ==
  IF value = PyNone THEN PyNone
  ELSE sanitize_value(IF col \in NUMERIC_COLUMNS
                        THEN (IF value # "" THEN ToFloat(value) ELSE PyNone)
                        ELSE value)

\* what _prepare_fact_record hands back; fact_record is PyNoneDict for None
RetPrep(db, rs, stats, fks, fact_record, exc) ==
  [db |-> db, rs |-> rs, stats |-> stats, fks |-> fks,
   fact_record |-> fact_record, exc |-> exc]

\* a loader that never leaves a record out for its field
NeverMissingCampo(fact_table, fks) == FALSE

\* fact_table == "fact_regalias" and fks["campo_id"] is None
MissingCampo(fact_table, fks) ==
  fact_table = "fact_regalias" /\ fks.campo_id = NoId

\* _prepare_fact_record from the result r of resolve_all_for_record on
PrepareResolved(r, stats, record, source_id) ==
  LET fks == r.fks
      fact_table == record.fact_table
      data == record.data
  IN  IF r.exc THEN RetPrep(r.db, r.rs, stats, fks, PyNoneDict, TRUE)
      ELSE IF fks.tiempo_id = NoId
        THEN RetPrep(r.db, r.rs,
                     [stats EXCEPT !.skipped_no_tiempo = @ + 1], fks,
                     PyNoneDict, data = PyNoneDict)
      ELSE IF MissingCampo(fact_table, fks)
        THEN RetPrep(r.db, r.rs,
                     [stats EXCEPT !.skipped_no_campo = @ + 1], fks,
                     PyNoneDict, data = PyNoneDict)
      ELSE IF data = PyNoneDict
        THEN RetPrep(r.db, r.rs, stats, fks, PyNoneDict, TRUE)
      ELSE
        LET base == [tiempo_id |-> fks.tiempo_id, source_id |-> source_id]
                      @@ (IF fks.campo_id # NoId
                            THEN [campo_id |-> fks.campo_id] ELSE EmptyDict)
                      @@ (IF fks.territorio_id # NoId
                            THEN [territorio_id |-> fks.territorio_id] ELSE EmptyDict)
            cols == {c \in DOMAIN data \ DimensionColumns :
                       CopiedValue(c, data[c]) # PyNone}
            copied == [c \in cols |-> CopiedValue(c, data[c])]
        IN  RetPrep(r.db, r.rs, stats, fks,
                    [_fact_table |-> fact_table] @@ copied @@ base, FALSE)

_prepare_fact_record(db, rs, stats, record, source_id, f) ==
  PrepareResolved(resolve_all_for_record(db, rs, record, f),
                  stats, record, source_id)

\* the columns _deduplicate_records keys a record of a table on
DedupColumns(fact_table) ==
  SplitComma(DictGet(UNIQUE_COLUMNS_BY_TABLE, fact_table, "tiempo_id"))

\* two prepared records have the same dedup key
SameDedupKey(r1, r2) ==
  /\ r1._fact_table = r2._fact_table
  /\ SameKey(r1, r2, SeqToSet(DedupColumns(r1._fact_table)))

\* the elements of a finite set of numbers, ascending
Ascending(S) ==
  [k \in 1..Cardinality(S) |->
     CHOOSE i \in S : Cardinality({j \in S : j < i}) = k - 1]

\* keeps the first record of each key
KeepFirst(records) ==
  LET firsts == {i \in 1..Len(records) :
                   \A j \in 1..(i - 1) : ~SameDedupKey(records[j], records[i])}
      order == Ascending(firsts)
      unique_records == [k \in 1..Len(order) |-> records[order[k]]]
  IN  [unique_records |-> unique_records,
       duplicates_removed |-> Len(records) - Len(unique_records)]

\* seen[key] = record over a dict: a key keeps the place of its first
\* record and the value of its last
_deduplicate_records(records) ==
  LET firsts == {i \in 1..Len(records) :
                   \A j \in 1..(i - 1) : ~SameDedupKey(records[j], records[i])}
      order == Ascending(firsts)
      LastOf(i) == MaxOf({j \in 1..Len(records) :
                            SameDedupKey(records[j], records[i])})
      unique_records == [k \in 1..Len(order) |-> records[LastOf(order[k])]]
  IN  [unique_records |-> unique_records,
       duplicates_removed |-> Len(records) - Len(unique_records)]

\* the statement the loader issues for a fact row: an upsert on the
\* table's conflict target
FactWrite(rows, payload, on_conflict) == UpsertRow(rows, payload, on_conflict)

\* the conflict target _batch_upsert names for a table ("" when the table
\* declares none and is skipped)
ConflictTarget(fact_table) == DictGet(UNIQUE_COLUMNS_BY_TABLE, fact_table, "")

\* the rows of a multi-row statement applied in order
RECURSIVE ApplyRows(_, _, _, _)
ApplyRows(rows, batch, on_conflict, i) ==
  IF i > Len(batch) THEN rows
  ELSE ApplyRows(FactWrite(rows, batch[i], on_conflict).rows, batch, on_conflict, i + 1)

\* a multi-row upsert raises: the store is down, the statement is hit by a
\* transient failure, a row is refused, or two rows of it have one
\* conflict key (PostgreSQL: cannot affect a row a second time)
BatchRaises(batch, batch_num, on_conflict, f) ==
  \/ f.fact_down
  \/ batch_num \in f.batch
  \/ \E i \in 1..Len(batch) : StoreRejects(batch[i])
  \/ \E i, j \in 1..Len(batch) :
       i < j /\ SameKey(batch[i], batch[j], SeqToSet(SplitComma(on_conflict)))

\* a single-row upsert raises
RowRaises(row, f) == f.fact_down \/ StoreRejects(row)

\* the running result of _batch_upsert; sent logs every statement issued
UpsertAcc(rows, upserted, errors, sent) ==
  [rows |-> rows, upserted |-> upserted, errors |-> errors, sent |-> sent]

\* a failed batch given up as a whole: every row of it an error
AbandonBatch(acc, fact_table, batch, batch_num, on_conflict, i, f) ==
  UpsertAcc(acc.rows, acc.upserted, acc.errors + Len(batch), acc.sent)

\* the except branch: the rows of a failed batch, one statement each
RECURSIVE RowByRow(_, _, _, _, _, _, _)
RowByRow(acc, fact_table, batch, batch_num, on_conflict, i, f) ==
  IF i > Len(batch) THEN acc
  ELSE
    LET st == [table |-> fact_table, kind |-> "row", batch |-> batch_num,
               rows |-> <<batch[i]>>, on_conflict |-> on_conflict,
               ok |-> ~RowRaises(batch[i], f)]
    IN  RowByRow(
          IF RowRaises(batch[i], f)
            THEN UpsertAcc(acc.rows, acc.upserted, acc.errors + 1, Append(acc.sent, st))
            ELSE UpsertAcc(FactWrite(acc.rows, batch[i], on_conflict).rows,
                           acc.upserted + 1, acc.errors, Append(acc.sent, st)),
          fact_table, batch, batch_num, on_conflict, i + 1, f)

\* the batches of one table, batch_num counted from 1
RECURSIVE Batches(_, _, _, _, _, _, _)
Batches(acc, fact_table, table_records, batch_size, on_conflict, batch_num, f) ==
  LET i == (batch_num - 1) * batch_size
  IN  IF i >= Len(table_records) THEN acc
      ELSE
        LET hi == IF i + batch_size <= Len(table_records)
                    THEN i + batch_size ELSE Len(table_records)
            batch == SubSeq(table_records, i + 1, hi)
            raises == BatchRaises(batch, batch_num, on_conflict, f)
            st == [table |-> fact_table, kind |-> "batch", batch |-> batch_num,
                   rows |-> batch, on_conflict |-> on_conflict, ok |-> ~raises]
            tried == UpsertAcc(acc.rows, acc.upserted, acc.errors, Append(acc.sent, st))
        IN  Batches(
              IF raises
                THEN RowByRow(tried, fact_table, batch, batch_num, on_conflict, 1, f)
                ELSE UpsertAcc(ApplyRows(acc.rows, batch, on_conflict, 1),
                               acc.upserted + Len(batch), acc.errors, tried.sent),
              fact_table, table_records, batch_size, on_conflict, batch_num + 1, f)

\* record.pop("_fact_table")
PopFactTable(record) == [c \in DOMAIN record \ {"_fact_table"} |-> record[c]]

\* records_by_table: the tables in the order their first record comes
TableOrder(records) ==
  LET firsts == {i \in 1..Len(records) :
                   \A j \in 1..(i - 1) : records[j]._fact_table # records[i]._fact_table}
      order == Ascending(firsts)
  IN  [k \in 1..Len(order) |-> records[order[k]]._fact_table]

\* a grouping that hands every table all the records
AnyTableRecords(records, fact_table) ==
  [k \in 1..Len(records) |-> PopFactTable(records[k])]

\* records_by_table[fact_table]
TableRecords(records, fact_table) ==
  LET idx == Ascending({i \in 1..Len(records) : records[i]._fact_table = fact_table})
  IN  [k \in 1..Len(idx) |-> PopFactTable(records[idx[k]])]

\* what _batch_upsert hands back
RetUpsert(db, upserted, errors, sent) ==
  [db |-> db, upserted |-> upserted, errors |-> errors, sent |-> sent]

\* the loop over records_by_table
RECURSIVE Tables(_, _, _, _, _, _)
Tables(ret, records, tables, batch_size, t, f) ==
  IF t > Len(tables) THEN ret
  ELSE
    LET fact_table == tables[t]
        unique_columns == ConflictTarget(fact_table)
    IN  IF unique_columns = ""
          THEN Tables(ret, records, tables, batch_size, t + 1, f)
          ELSE
            LET acc == Batches(UpsertAcc(ret.db[fact_table], ret.upserted, ret.errors, ret.sent),
                               fact_table, TableRecords(records, fact_table),
                               batch_size, unique_columns, 1, f)
            IN  Tables(RetUpsert([ret.db EXCEPT ![fact_table] = acc.rows],
                                 acc.upserted, acc.errors, acc.sent),
                       records, tables, batch_size, t + 1, f)

_batch_upsert(db, ld, records, f) ==
  IF ~ld.client_ok
    THEN RetUpsert(db, 0, Len(records), <<>>)
    ELSE Tables(RetUpsert(db, 0, 0, <<>>), records, TableOrder(records),
                ld.batch_size, 1, f)

\* the running state of load()'s loop over the input records; log keeps,
\* per record handled, the FKs the resolver returned and what became of it
LoopState(db, rs, stats, fact_records, log, raised) ==
  [db |-> db, rs |-> rs, stats |-> stats, fact_records |-> fact_records,
   log |-> log, raised |-> raised]

\* for i, record in enumerate(records): try _prepare_fact_record except ...
\* The handler reads record.get("data", {}).get("campo_nombre", "unknown"),
\* which raises AttributeError out of load() when record["data"] is None.
RECURSIVE PrepareLoop(_, _, _, _, _)
RECURSIVE LoopBody(_, _, _, _, _, _)
PrepareLoop(st, records, i, source_id, f) ==
  IF i > Len(records) THEN st
  ELSE LoopBody(st,
                _prepare_fact_record(st.db, st.rs,
                                     [st.stats EXCEPT !.total_processed = @ + 1],
                                     records[i], source_id, f),
                records, i, source_id, f)

\* one pass of the loop body, p the outcome of _prepare_fact_record
LoopBody(st, p, records, i, source_id, f) ==
  IF p.exc
    THEN
      LET stats == [p.stats EXCEPT !.errors = @ + 1]
          entry == [fks |-> p.fks, outcome |-> "exception"]
      IN  IF records[i].data = PyNoneDict
            THEN LoopState(p.db, p.rs, stats, st.fact_records,
                           Append(st.log, entry), TRUE)
            ELSE PrepareLoop(LoopState(p.db, p.rs, stats, st.fact_records,
                                       Append(st.log, entry), FALSE),
                             records, i + 1, source_id, f)
  ELSE IF p.fact_record = PyNoneDict
    THEN PrepareLoop(LoopState(p.db, p.rs, p.stats, st.fact_records,
                               Append(st.log, [fks |-> p.fks, outcome |-> "skipped"]),
                               FALSE),
                     records, i + 1, source_id, f)
  ELSE PrepareLoop(LoopState(p.db, p.rs, p.stats,
                             Append(st.fact_records, p.fact_record),
                             Append(st.log, [fks |-> p.fks, outcome |-> "prepared"]),
                             FALSE),
                   records, i + 1, source_id, f)

\* the status load() derives from the counters
LoadStatus(stats) ==
  IF stats.inserted = 0 /\ stats.errors > 0 THEN "error"
  ELSE IF stats.errors = 0 THEN "success"
  ELSE "partial"

\* what load() leaves behind and returns: raised is an exception leaving
\* load(); status and stats are the returned result; log, fact_records,
\* unique_records and sent expose the run's intermediate values
RetLoad(db, rs, ld, raised, status, log, fact_records, unique_records, sent) ==
  [db |-> db, rs |-> rs, ld |-> ld, raised |-> raised, status |-> status,
   stats |-> ld.stats, log |-> log, fact_records |-> fact_records,
   unique_records |-> unique_records, sent |-> sent]

\* steps 3 and 4 of load(): the counters after the upsert up of the
\* unique records dd, the status and the result
LoadUpserted(ld, lp, dd, up) ==
  LET stats1 == IF dd.duplicates_removed > 0
                  THEN ("duplicates_in_batch" :> dd.duplicates_removed)
                         @@ lp.stats
                  ELSE lp.stats
      stats2 == IF dd.unique_records # <<>>
                  THEN [stats1 EXCEPT !.inserted = up.upserted,
                                      !.errors = @ + up.errors]
                  ELSE stats1
  IN  RetLoad(up.db, lp.rs, [ld EXCEPT !.stats = stats2], FALSE,
              LoadStatus(stats2), lp.log, lp.fact_records,
              dd.unique_records, up.sent)

\* step 2b of load(): upsert the unique records dd if there are any
LoadUnique(ld, lp, dd, f) ==
  LoadUpserted(ld, lp, dd,
               IF dd.unique_records # <<>>
                 THEN _batch_upsert(lp.db, ld, dd.unique_records, f)
                 ELSE RetUpsert(lp.db, 0, 0, <<>>))

\* load() after the loop over the records has ended in lp
LoadPrepared(ld, lp, f) ==
  IF lp.raised
    THEN RetLoad(lp.db, lp.rs, [ld EXCEPT !.stats = lp.stats], TRUE,
                 "raised", lp.log, lp.fact_records, <<>>, <<>>)
    ELSE LoadUnique(ld, lp,
                    IF lp.fact_records # <<>>
                      THEN _deduplicate_records(lp.fact_records)
                      ELSE [unique_records |-> <<>>, duplicates_removed |-> 0],
                    f)

load(db, rs, ld, records, source_id, f) ==
  IF records = <<>>
    THEN RetLoad(db, rs, ld, FALSE, "success", <<>>, <<>>, <<>>, <<>>)
    ELSE LoadPrepared(ld,
                      PrepareLoop(LoopState(db, preload_all_caches(db, rs, f),
                                            ld.stats, <<>>, <<>>, FALSE),
                                  records, 1, source_id, f),
                      f)

(* ------------------------------------------------------------------ *)
(* Inputs: normalized records as the transformers emit them            *)
(* ------------------------------------------------------------------ *)
\* a fact_regalias record in the shape REGALIAS_CONFIG maps to
Regalias(fecha, departamento, municipio, campo, contrato, precio) ==
  [fact_table |-> "fact_regalias",
   data |-> [tiempo_fecha |-> fecha, campo_nombre |-> campo,
             tipo_hidrocarburo |-> "G", precio_usd |-> precio],
   dimensions |->
     [tiempo |-> [fecha |-> fecha],
      territorio |-> [departamento |-> departamento, municipio |-> municipio],
      campo |-> [nombre_campo |-> campo, contrato |-> contrato]]]

\* a fact_demanda_gas record as UpmeDemandaTransformer emits it
Demanda(fecha, escenario, demanda) ==
  [fact_table |-> "fact_demanda_gas",
   data |-> [tiempo_fecha |-> fecha, escenario |-> escenario,
             demanda_gbtud |-> demanda],
   dimensions |-> [tiempo |-> [fecha |-> fecha]]]

\* a fact_oferta_gas record as MinMinasOfertaTransformer emits it
Oferta(fecha, campo, numero_resolucion) ==
  [fact_table |-> "fact_oferta_gas",
   data |-> [tiempo_fecha |-> fecha, campo_nombre |-> campo,
             resolucion_number |-> numero_resolucion],
   dimensions |->
     [tiempo |-> [fecha |-> fecha],
      campo |-> [nombre_campo |-> campo],
      resolucion |-> [numero_resolucion |-> numero_resolucion]]]

\* the records a load() is fed from
Universe ==
  {Regalias("2024-01-01", "Bogotá", "Usaquén", " alfa ", "C1", "10"),
   Regalias("2024-01-15", "BOGOTA", "USAQUEN", "ALFA", "C2", "20"),
   Regalias("2024-01-01", "NN", "NN", "BETA", "", "-1"),
   Regalias("2024-02-01", "NN", "NN", "BETA", "C3", "10"),
   Regalias("2024-01-01", "", "", "", "", "nan"),
   Regalias("2024-02-01", "", "", " ", "", "10"),
   Regalias("junk", "", "", "BETA", "", "10"),
   [Regalias("2024-01-01", "", "", "BETA", "C3", "10") EXCEPT !.data = PyNoneDict],
   Demanda("2024-01-01", "MEDIO", "5"),
   Oferta("2024-01-01", "BETA", " R14 "),
   Oferta("2024-01-01", "ALFA", "R14")}

Inputs == UNION {[1..n -> Universe] : n \in 0..MaxLen}

\* the store before the first run: the seeded time and place dimensions
\* and one field created by an earlier run
InitDb ==
  [dim_tiempo |-> {[id |-> 1, fecha |-> "2024-01-01"]},
   dim_territorios |-> {[id |-> 1, departamento |-> "Bogotá", municipio |-> "Usaquén"]},
   dim_campos |-> {[id |-> 1, nombre_campo |-> "ALFA", activo |-> TRUE, contrato |-> "C0"]},
   dim_resoluciones |-> {},
   fact_regalias |-> {},
   fact_demanda_gas |-> {},
   fact_oferta_gas |-> {}]

(* ------------------------------------------------------------------ *)
(* The state machine                                                   *)
(* ------------------------------------------------------------------ *)
VARIABLES
  db,       \* the store
  rs,       \* the DimensionResolver of the current run
  ld,       \* the FactLoader of the current run
  records,  \* the extraction the runs load from
  loads,    \* the load() calls made so far
  last,     \* the last call made and what it returned
  prev,     \* the call before it
  run       \* concurrent runs: each one's resolver and where it stands

vars == <<db, rs, ld, records, loads, last, prev, run>>

NoCall == [op |-> "none"]

\* FactLoader(client, DimensionResolver(client2), batch_size): the loader
\* keeps its own client, which need not be the resolver's
ClientPairs == {<<TRUE, TRUE>>, <<FALSE, TRUE>>, <<FALSE, FALSE>>}

Init ==
  /\ db = InitDb
  /\ records \in Inputs
  /\ \E c \in ClientPairs, b \in 1..MaxBatch :
       /\ ld = NewLoader(c[1], b)
       /\ rs = NewResolver(c[2])
  /\ loads = 0
  /\ last = NoCall
  /\ prev = NoCall
  /\ run = <<>>

\* the next run builds its own loader/resolver pair, as load_regalias does,
\* with the configuration of the first
Construct ==
  /\ loads < MaxLoads
  /\ ld.stats.total_processed > 0
  /\ ld' = NewLoader(ld.client_ok, ld.batch_size)
  /\ rs' = NewResolver(rs.client_ok)
  /\ UNCHANGED <<db, records, loads, last, prev, run>>

\* what a run loads: the whole extraction, or its last page again
RunInputs == {records} \cup (IF Len(records) > 1 THEN {Tail(records)} ELSE {})

\* loader.load(input, "api_regalias")
Load(input, f) ==
  /\ loads < MaxLoads
  /\ \E r \in {load(db, rs, ld, input, "api_regalias", f)} :
         /\ db' = r.db
         /\ rs' = r.rs
         /\ ld' = r.ld
         /\ last' = [op |-> "load", input |-> input, f |-> f, pre_db |-> db,
                     pre_stats |-> ld.stats, raised |-> r.raised,
                     status |-> r.status, stats |-> r.stats, log |-> r.log,
                     fact_records |-> r.fact_records,
                     unique_records |-> r.unique_records, sent |-> r.sent]
         /\ prev' = [op |-> last.op,
                     input |-> IF last.op = "load" THEN last.input ELSE <<>>,
                     f |-> IF last.op = "load" THEN last.f ELSE NoFault,
                     raised |-> IF last.op = "load" THEN last.raised ELSE FALSE]
  /\ loads' = loads + 1
  /\ UNCHANGED <<records, run>>

Next ==
  \/ Construct
  \/ \E input \in RunInputs, f \in Faults : Load(input, f)

Spec == Init /\ [][Next]_vars

(* ------------------------------------------------------------------ *)
(* A resolver used on its own                                          *)
(* ------------------------------------------------------------------ *)
\* what the store may do wrong during a resolve-or-create call
ResolverFaults == {NoFault, DimUpsertFails, DuplicateKey}

\* what is kept of the call before the last: unknown is the store holding
\* no row for the key of a resolve-or-create call when it was made
Earlier ==
  IF last.op = "none" THEN NoCall
  ELSE [op |-> last.op, key |-> last.key, f |-> last.f, ret |-> last.ret,
        unknown |->
          CASE last.op = "campo" ->
                 \A r \in last.pre_db.dim_campos : r.nombre_campo # last.key
            [] last.op = "resolucion" ->
                 \A r \in last.pre_db.dim_resoluciones :
                   r.numero_resolucion # last.key
            [] OTHER -> FALSE]

InitResolver ==
  /\ db = InitDb
  /\ \E c \in BOOLEAN : rs = NewResolver(c)
  /\ ld = NewLoader(TRUE, 1)
  /\ records = <<>>
  /\ loads = 0
  /\ last = NoCall
  /\ prev = NoCall
  /\ run = <<>>

\* the record of a resolver call: key is the normalized natural key
Called(op, key, f, r) ==
  [op |-> op, key |-> key, f |-> f, pre_db |-> db, pre_rs |-> rs,
   ret |-> r.ret, raised |-> r.exc]

\* resolver.preload_all_caches()
Preload(f) ==
  /\ rs' = preload_all_caches(db, rs, f)
  /\ last' = [op |-> "preload", key |-> "", f |-> f, pre_db |-> db,
              pre_rs |-> rs, ret |-> NoId, raised |-> FALSE]
  /\ prev' = Earlier
  /\ UNCHANGED <<db, ld, records, loads, run>>

\* resolver.resolve_or_create_campo_id(nombre_campo, contrato)
ResolveCampo(nombre_campo, contrato, f) ==
  /\ \E r \in {resolve_or_create_campo_id(db, rs, nombre_campo, contrato, NoId, PyNone, f)} :
       /\ db' = r.db
       /\ rs' = r.rs
       /\ last' = Called("campo", Upper(Strip(nombre_campo)), f, r)
  /\ prev' = Earlier
  /\ UNCHANGED <<ld, records, loads, run>>

\* resolver.resolve_or_create_resolucion_id(numero_resolucion)
ResolveResolucion(numero_resolucion, f) ==
  /\ \E r \in {resolve_or_create_resolucion_id(db, rs, numero_resolucion,
                                               PyNone, PyNone, PyNone, PyNone, f)} :
       /\ db' = r.db
       /\ rs' = r.rs
       /\ last' = Called("resolucion", Strip(numero_resolucion), f, r)
  /\ prev' = Earlier
  /\ UNCHANGED <<ld, records, loads, run>>

\* resolver.resolve_tiempo_id(fecha)
ResolveTiempo(fecha, f) ==
  /\ \E r \in {resolve_tiempo_id(db, rs, fecha, f)} :
       /\ db' = r.db
       /\ rs' = r.rs
       /\ last' = Called("tiempo", fecha, f, r)
  /\ prev' = Earlier
  /\ UNCHANGED <<ld, records, loads, run>>

NextResolver ==
  \/ \E f \in {NoFault, ReadsDown} : Preload(f)
  \/ \E n \in {"BETA", " beta ", " alfa ", ""}, f \in ResolverFaults :
       ResolveCampo(n, "C9", f)
  \/ \E n \in {"R14", " R14 ", ""}, f \in ResolverFaults : ResolveResolucion(n, f)
  \/ \E d \in {"2024-01-15", "2024-02-01", "junk"}, f \in {NoFault, ReadsDown} :
       ResolveTiempo(d, f)

SpecResolver == InitResolver /\ [][NextResolver]_vars

(* ------------------------------------------------------------------ *)
(* Two runs resolving one key at the same time                         *)
(* ------------------------------------------------------------------ *)
\* Each run has a resolver of its own over the shared store. A store call
\* is one atomic step; what a run does between two store calls touches
\* only its own resolver, so a call of resolve-or-create is placed at the
\* instant of its upsert, and the lookup after a duplicate-key error is a
\* step of its own.
Runs == {1, 2}

\* the key both runs resolve, as each of them spells it
ConcKeys ==
  {[dim |-> "campo", raw |-> <<"BETA", " beta ">>],
   [dim |-> "campo", raw |-> <<" beta ", " beta ">>],
   [dim |-> "campo", raw |-> <<"beta", "BETA">>],
   [dim |-> "resolucion", raw |-> <<"R14", " R14 ">>],
   [dim |-> "resolucion", raw |-> <<" R14 ", "R14">>],
   [dim |-> "resolucion", raw |-> <<"R14", "R14">>]}

\* the resolve-or-create call of a run; attr is a value the two runs give
\* the row differently (the field's contrato, the resolution's source_id)
ConcResolve(r, f) ==
  IF r.dim = "campo"
    THEN resolve_or_create_campo_id(db, r.rs, r.raw, r.attr, NoId, PyNone, f)
    ELSE resolve_or_create_resolucion_id(db, r.rs, r.raw, PyNone, PyNone,
                                         PyNone, r.attr, f)

\* the normalized key of a run, the cache it goes to and its rows
ConcKey(r) == IF r.dim = "campo" THEN Upper(Strip(r.raw)) ELSE Strip(r.raw)

ConcCache(r) == IF r.dim = "campo" THEN r.rs.campo_cache ELSE r.rs.resolucion_cache

ConcRows(r) ==
  IF r.dim = "campo"
    THEN {x \in db.dim_campos : x.nombre_campo = ConcKey(r)}
    ELSE {x \in db.dim_resoluciones : x.numero_resolucion = ConcKey(r)}

InitConc ==
  /\ db = InitDb
  /\ rs = NewResolver(TRUE)
  /\ ld = NewLoader(TRUE, 1)
  /\ records = <<>>
  /\ loads = 0
  /\ last = NoCall
  /\ prev = NoCall
  /\ \E k \in ConcKeys :
       run = [i \in Runs |->
                [pc |-> "start", rs |-> NewResolver(TRUE), dim |-> k.dim,
                 raw |-> k.raw[i], attr |-> IF i = 1 THEN "C1" ELSE "C2",
                 ret |-> NoId, via |-> "none"]]

\* run i preloads its caches
CPreload(i) ==
  /\ run[i].pc = "start"
  /\ run' = [run EXCEPT ![i].pc = "ready",
                        ![i].rs = preload_all_caches(db, run[i].rs, NoFault)]
  /\ UNCHANGED <<db, rs, ld, records, loads, last, prev>>

\* run i resolves the key: from its cache, or by an upsert that answers
CResolve(i) ==
  /\ run[i].pc \in {"start", "ready"}
  /\ \E r \in {ConcResolve(run[i], NoFault)} :
       /\ db' = r.db
       /\ run' = [run EXCEPT ![i].pc = "done", ![i].rs = r.rs, ![i].ret = r.ret,
                             ![i].via = IF ConcKey(run[i]) \in DOMAIN ConcCache(run[i])
                                          THEN "cache" ELSE "upsert"]
  /\ UNCHANGED <<rs, ld, records, loads, last, prev>>

\* the upsert of run i raises a duplicate-key error: the other run's row
\* is there
CUpsertRaises(i) ==
  /\ run[i].pc \in {"start", "ready"}
  /\ ConcKey(run[i]) \notin DOMAIN ConcCache(run[i])
  /\ ConcRows(run[i]) # {}
  /\ run' = [run EXCEPT ![i].pc = "lookup"]
  /\ UNCHANGED <<db, rs, ld, records, loads, last, prev>>

\* the except branch of run i: a plain lookup of the key
CLookup(i) ==
  /\ run[i].pc = "lookup"
  /\ \E r \in {ConcResolve(run[i], DuplicateKey)} :
       /\ db' = r.db
       /\ run' = [run EXCEPT ![i].pc = "done", ![i].rs = r.rs, ![i].ret = r.ret,
                             ![i].via = "lookup"]
  /\ UNCHANGED <<rs, ld, records, loads, last, prev>>

NextConc ==
  \E i \in Runs : CPreload(i) \/ CResolve(i) \/ CUpsertRaises(i) \/ CLookup(i)

SpecConc == InitConc /\ [][NextConc]_vars

(* ------------------------------------------------------------------ *)
(* Place resolution on its own                                         *)
(* ------------------------------------------------------------------ *)
\* what dim_territorios may hold, as the seed list spells it: the one
\* municipality with accents, the same in capitals, or nothing
PlaceSeeds ==
  {{[id |-> 1, departamento |-> "Bogotá", municipio |-> "Usaquén"]},
   {[id |-> 7, departamento |-> "BOGOTÁ", municipio |-> "USAQUÉN"]},
   {}}

\* the (departamento, municipio) pairs resolve_territorio_id is called with
PlaceInputs ==
  {<<"Bogotá", "Usaquén">>, <<"BOGOTA", "USAQUEN">>, <<" bogotá ", "usaquén">>,
   <<"NN", "NN">>, <<"", "Usaquén">>}

InitPlace ==
  /\ \E seed \in PlaceSeeds : db = [InitDb EXCEPT !.dim_territorios = seed]
  /\ \E c \in BOOLEAN : rs = NewResolver(c)
  /\ ld = NewLoader(TRUE, 1)
  /\ records = <<>>
  /\ loads = 0
  /\ last = NoCall
  /\ prev = NoCall
  /\ run = <<>>

\* what is kept of the call before the last: filled is the place cache
\* holding entries when the call was made
EarlierPlace ==
  IF last.op = "none" THEN NoCall
  ELSE [op |-> last.op, key |-> last.key, f |-> last.f, ret |-> last.ret,
        filled |-> DOMAIN last.pre_rs.territorio_cache # {}]

\* resolver.preload_territorio_cache()
PlacePreload(f) ==
  /\ rs' = preload_territorio_cache(db, rs, f)
  /\ last' = [op |-> "preload", key |-> <<"", "">>, f |-> f, pre_db |-> db,
              pre_rs |-> rs, ret |-> NoId, raised |-> FALSE]
  /\ prev' = EarlierPlace
  /\ UNCHANGED <<db, ld, records, loads, run>>

\* resolver.resolve_territorio_id(departamento, municipio)
PlaceResolve(p, f) ==
  /\ \E r \in {resolve_territorio_id(db, rs, p[1], p[2], f)} :
       /\ db' = r.db
       /\ rs' = r.rs
       /\ last' = Called("territorio", p, f, r)
  /\ prev' = EarlierPlace
  /\ UNCHANGED <<ld, records, loads, run>>

NextPlace ==
  \/ \E f \in {NoFault, ReadsDown} : PlacePreload(f)
  \/ \E p \in PlaceInputs, f \in {NoFault, ReadsDown} : PlaceResolve(p, f)

SpecPlace == InitPlace /\ [][NextPlace]_vars

(* ------------------------------------------------------------------ *)
(* A resolver over the dimensions an earlier run or a seed left        *)
(* ------------------------------------------------------------------ *)
\* what the store may hold when a resolver starts: the seeded month and
\* place and one field; the same with a month seeded before 2010 and a
\* resolution an earlier run created; the same with no place seeded
SeededDbs ==
  {InitDb,
   [InitDb EXCEPT
      !.dim_tiempo = @ \cup {[id |-> 2, fecha |-> "2009-12-01"]},
      !.dim_resoluciones =
         {[id |-> 1, numero_resolucion |-> "R14", periodo_desde |-> "2021-01-01",
           periodo_hasta |-> "2021-12-31"]}],
   [InitDb EXCEPT !.dim_territorios = {}]}

InitSeeded ==
  /\ db \in SeededDbs
  /\ \E c \in BOOLEAN : rs = NewResolver(c)
  /\ ld = NewLoader(TRUE, 1)
  /\ records = <<>>
  /\ loads = 0
  /\ last = NoCall
  /\ prev = NoCall
  /\ run = <<>>

NextSeeded ==
  \/ \E f \in {NoFault, ReadsDown, PreloadFails} : Preload(f)
  \/ \E n \in {"BETA", " alfa "}, f \in ResolverFaults : ResolveCampo(n, "C9", f)
  \/ \E n \in {"R14", " R14 "}, f \in ResolverFaults : ResolveResolucion(n, f)
  \/ \E d \in {"2024-01-15", "2024-02-01", "2009-12-01"}, f \in {NoFault, ReadsDown} :
       ResolveTiempo(d, f)
  \/ \E p \in {<<"BOGOTA", "USAQUEN">>, <<"NN", "NN">>}, f \in {NoFault, ReadsDown} :
       PlaceResolve(p, f)

SpecSeeded == InitSeeded /\ [][NextSeeded]_vars

(* ------------------------------------------------------------------ *)
(* A loader/resolver pair reused after an explicit reset               *)
(* ------------------------------------------------------------------ *)
\* FactLoader.reset_stats: the dict it assigns has no duplicates_in_batch
reset_stats(loader) ==
  [loader EXCEPT !.stats = [total_processed |-> 0, inserted |-> 0,
                        skipped_no_tiempo |-> 0, skipped_no_campo |-> 0,
                        errors |-> 0]]

\* DimensionResolver.clear_caches: the four caches, the created-id lists
\* and the not-found set; self.stats is not touched
clear_caches(resolver) ==
  [resolver EXCEPT !.tiempo_cache = EmptyDict,
             !.territorio_cache = EmptyDict,
             !.campo_cache = EmptyDict,
             !.resolucion_cache = EmptyDict,
             !.campos_created_ids = <<>>,
             !.resoluciones_created_ids = <<>>,
             !.territorios_not_found = {}]

\* loader.reset_stats(); resolver.clear_caches()
Reset ==
  /\ last.op = "load"
  /\ ld' = reset_stats(ld)
  /\ rs' = clear_caches(rs)
  /\ last' = [op |-> "reset", pre_stats |-> ld.stats, pre_rs |-> rs]
  /\ UNCHANGED <<db, records, loads, prev, run>>

InitReset ==
  /\ db = InitDb
  /\ records \in Inputs
  /\ ld = NewLoader(TRUE, 1)
  /\ rs = NewResolver(TRUE)
  /\ loads = 0
  /\ last = NoCall
  /\ prev = NoCall
  /\ run = <<>>

NextReset ==
  \/ Reset
  \/ \E input \in RunInputs, f \in {NoFault, PreloadFails} : Load(input, f)

SpecReset == InitReset /\ [][NextReset]_vars

(* ------------------------------------------------------------------ *)
(* ApiTransformer (transformers/api.py) driven by a                    *)
(* TransformationConfig.  A raw record is a function from column names *)
(* to text cells; a DataFrame is its column set, its index (0-based)   *)
(* and one row per index; float cells are written "10.0", NaN is "nan" *)
(* and infinity "inf".  A source of a column_mapping is [str |-> s]    *)
(* for a string and [const |-> c] for any other literal.               *)
(* ------------------------------------------------------------------ *)
\* pd.DataFrame(records): the columns are the union of the records' keys,
\* a cell a record has no key for is NaN
DataFrame(rows) ==
  LET columns == UNION {DOMAIN rows[i] : i \in DOMAIN rows}
  IN  [columns |-> columns,
       index |-> {i - 1 : i \in DOMAIN rows},
       row |-> [idx \in {i - 1 : i \in DOMAIN rows} |->
                  [c \in columns |->
                     IF c \in DOMAIN rows[idx + 1] THEN rows[idx + 1][c] ELSE "nan"]]]

\* pd.to_numeric(cell, errors='coerce'): text that is no number becomes NaN
to_numeric(v) ==
  CASE v = "1" -> "1.0"
    [] v = "13" -> "13.0"
    [] v = "10" -> "10.0"
    [] v = "-1" -> "-1.0"
    [] v = "2024" -> "2024.0"
    [] v = "inf" -> "inf"
    [] v \in {"1.0", "13.0", "10.0", "-1.0", "2024.0"} -> v
    [] OTHER -> "nan"

\* the number a float cell stands for (NaN and infinity have none)
NumberOf ==
  [v \in {"1.0", "13.0", "10.0", "-1.0", "2024.0"} |->
     CASE v = "1.0" -> 1
       [] v = "13.0" -> 13
       [] v = "10.0" -> 10
       [] v = "-1.0" -> -1
       [] v = "2024.0" -> 2024]

\* cell < bound and cell > bound on floats: a comparison with NaN is False
LessThan(v, bound) ==
  IF v \in DOMAIN NumberOf THEN NumberOf[v] < bound ELSE FALSE

GreaterThan(v, bound) ==
  IF v \in DOMAIN NumberOf THEN NumberOf[v] > bound ELSE v = "inf"

\* ValidationRule members whose column is converted with pd.to_numeric
NumericRules == {"range", "non_negative", "positive", "between_0_100"}

\* invalid_mask of a rule for one cell; a rule with no mask flags nothing
InvalidMask(validation, v) ==
  CASE validation.rule = "range" ->
         IF "min" \in DOMAIN validation.params
           THEN ~(~LessThan(v, validation.params.min)
                    /\ ~GreaterThan(v, validation.params.max)
                    /\ v # "nan")
           ELSE FALSE
    [] validation.rule = "enum" -> v \notin validation.params.values
    [] validation.rule = "non_negative" -> LessThan(v, 0)
    [] validation.rule = "between_0_100" -> LessThan(v, 0) \/ GreaterThan(v, 100)
    [] OTHER -> FALSE

\* an entry of the error list
ErrorRow(record_index, error) == [record_index |-> record_index, error |-> error]

\* _apply_validation_rule: converts the column in place when the rule is
\* numeric and returns one error per row the mask flags, in index order
_apply_validation_rule(df, validation) ==
  LET col == validation.column
      conv == IF validation.rule \in NumericRules
                THEN [df EXCEPT !.row =
                        [idx \in df.index |->
                           [df.row[idx] EXCEPT ![col] = to_numeric(@)]]]
                ELSE df
      flagged == Ascending({idx \in conv.index :
                              InvalidMask(validation, conv.row[idx][col])})
  IN  IF col \notin df.columns
        THEN [df |-> df, errors |-> <<>>]
        ELSE [df |-> conv,
              errors |-> [k \in DOMAIN flagged |->
                            ErrorRow(flagged[k], validation.error_message)]]

\* for validation in column_validations: error_rows.extend(...)
RECURSIVE ApplyValidations(_, _, _, _)
ApplyValidations(df, validations, k, error_rows) ==
  IF k > Len(validations) THEN [df |-> df, error_rows |-> error_rows]
  ELSE ApplyValidations(_apply_validation_rule(df, validations[k]).df,
                        validations, k + 1,
                        error_rows \o _apply_validation_rule(df, validations[k]).errors)

\* invalid_indices: the rows of df that have an entry in error_rows
InvalidIndices(df, error_rows) ==
  {i \in df.index : \E k \in DOMAIN error_rows : error_rows[k].record_index = i}

\* a frame that drops no row
DropNothing(df, invalid_indices) == df

\* df.drop(index=list(invalid_indices))
Drop(df, invalid_indices) ==
  [df EXCEPT !.index = @ \ invalid_indices,
             !.row = [idx \in df.index \ invalid_indices |-> df.row[idx]]]

\* calling a derivation's function on a row: val is what it returns,
\* raised is it raising.  _derive_fecha_regalias is
\* date(int(row["a_o"]), int(row["mes"]), 1); int_anio is int(row["a_o"])
CallDerivation(function, row) ==
  CASE function = "_derive_fecha_regalias" ->
         IF row["a_o"] = "2024" /\ row["mes"] \in {"1", "1.0"}
           THEN [raised |-> FALSE, val |-> "2024-01-01"]
           ELSE [raised |-> TRUE, val |-> PyNone]
    [] function = "int_anio" ->
         IF row["a_o"] = "2024"
           THEN [raised |-> FALSE, val |-> "2024"]
           ELSE [raised |-> TRUE, val |-> PyNone]

\* df_valid[target] = df_valid.apply(function, axis=1): the function is
\* called row by row in index order; the first row it raises on ends the
\* apply and leaves df_valid as it was.  applied lists the rows the
\* function was called on
Apply(df_valid, derivation) ==
  LET order == Ascending(df_valid.index)
      failing == {k \in DOMAIN order :
                    CallDerivation(derivation.function, df_valid.row[order[k]]).raised}
      stop == IF failing = {} THEN Len(order)
              ELSE CHOOSE k \in failing : \A j \in failing : k <= j
  IN  [raised |-> failing # {},
       applied |-> [k \in 1..stop |-> <<derivation.target_column, order[k]>>],
       df |-> IF failing # {} THEN df_valid
              ELSE [df_valid EXCEPT
                      !.columns = @ \cup {derivation.target_column},
                      !.row = [idx \in df_valid.index |->
                                 (derivation.target_column :>
                                    CallDerivation(derivation.function,
                                                   df_valid.row[idx]).val)
                                 @@ df_valid.row[idx]]]]

\* the except branch of a derivation: one error per row of df_valid
DerivationErrors(df_valid) ==
  [k \in DOMAIN Ascending(df_valid.index) |->
     ErrorRow(Ascending(df_valid.index)[k], "Error derivando")]

\* what the derivation loop hands on
RetDerive(df_valid, error_rows, derived) ==
  [df_valid |-> df_valid, error_rows |-> error_rows, derived |-> derived]

\* for derivation in column_derivations: try apply except record errors
RECURSIVE Derive(_, _, _, _, _)
RECURSIVE Derived(_, _, _, _, _, _)
Derive(df_valid, derivations, k, error_rows, derived) ==
  IF k > Len(derivations) THEN RetDerive(df_valid, error_rows, derived)
  ELSE Derived(Apply(df_valid, derivations[k]), df_valid, derivations, k,
               error_rows, derived)

\* the loop body once the apply a of derivation k has ended
Derived(a, df_valid, derivations, k, error_rows, derived) ==
  Derive(a.df, derivations, k + 1,
         IF a.raised THEN error_rows \o DerivationErrors(df_valid) ELSE error_rows,
         derived \o a.applied)

\* api._sanitize_value: a float NaN or infinity becomes None
_sanitize_value(value) == IF value \in {"nan", "inf", "-inf"} THEN PyNone ELSE value

\* a source of a column_mapping is a str
IsStr(source) == "str" \in DOMAIN source

\* `source in row.index`: the index of a row holds the column names
InIndex(source, columns) == IsStr(source) /\ source.str \in columns

\* the mapping entry taken as a literal constant
Literal(source) == IF IsStr(source) THEN source.str ELSE source.const

\* a mapping that takes every entry as a literal
AlwaysLiteral(source, row, columns) == Literal(source)

\* the value of a fact column: the row's cell, sanitized, or the literal
FactValue(source, row, columns) ==
  IF InIndex(source, columns) THEN _sanitize_value(row[source.str])
  ELSE Literal(source)

\* the value of a dimension field
DimValue(sc, row, columns) ==
  IF IsStr(sc) /\ InIndex(sc, columns) THEN _sanitize_value(row[sc.str])
  ELSE Literal(sc)

_build_record_from_config(row, columns, config, source_id) ==
  LET mapping == config.fact_mapping
  IN  [fact_table |-> mapping.fact_table,
       data |-> [target \in DOMAIN mapping.column_mapping |->
                   FactValue(mapping.column_mapping[target], row, columns)],
       dimensions |->
         [name \in DOMAIN mapping.dimension_mappings |->
            [tf \in DOMAIN mapping.dimension_mappings[name] |->
               DimValue(mapping.dimension_mappings[name][tf], row, columns)]]]

\* config.custom_validator(row.to_dict()): None, or the error text.
\* _validate_regalias_coherencia accepts every row; only_gas is a
\* validator that refuses the rows of another hydrocarbon
CallValidator(custom_validator, row) ==
  CASE custom_validator = "_validate_regalias_coherencia" -> PyNone
    [] custom_validator = "only_gas" ->
         IF row["tipohidrocarburo"] = "G" THEN PyNone ELSE "No es gas"

\* config.custom_transformer(row.to_dict(), source_id): a transformer
\* that copies the price cell as it is
CallTransformer(custom_transformer, row, source_id) ==
  [fact_table |-> "fact_regalias",
   data |-> [precio_usd |-> row["preciohidrocarburousd"],
             campo_nombre |-> row["campo"]],
   dimensions |-> [campo |-> [nombre_campo |-> row["campo"]]]]

\* the state of the loop over the rows of df_valid: hooks lists, in
\* order, which of validator, transformer and declarative mapping ran
\* for which row, valid_index the row each valid record was built from
MapState(error_rows, valid_records, valid_index, hooks) ==
  [error_rows |-> error_rows, valid_records |-> valid_records,
   valid_index |-> valid_index, hooks |-> hooks]

\* the body of the loop for the row idx of df_valid
MapRow(st, df_valid, idx, config, source_id) ==
  LET row == df_valid.row[idx]
      validated == config.custom_validator # PyNone
      hooks1 == IF validated THEN Append(st.hooks, <<"validator", idx>>)
                ELSE st.hooks
      custom_error == IF validated THEN CallValidator(config.custom_validator, row)
                      ELSE PyNone
  IN  IF Truthy(custom_error)
        THEN MapState(Append(st.error_rows, ErrorRow(idx, custom_error)),
                      st.valid_records, st.valid_index, hooks1)
      ELSE IF config.custom_transformer # PyNone
        THEN MapState(st.error_rows,
                      Append(st.valid_records,
                             CallTransformer(config.custom_transformer, row, source_id)),
                      Append(st.valid_index, idx),
                      Append(hooks1, <<"transformer", idx>>))
      ELSE MapState(st.error_rows,
                    Append(st.valid_records,
                           _build_record_from_config(row, df_valid.columns,
                                                     config, source_id)),
                    Append(st.valid_index, idx),
                    Append(hooks1, <<"mapping", idx>>))

\* for idx, row in df_valid.iterrows()
RECURSIVE MapRows(_, _, _, _, _, _)
MapRows(st, df_valid, order, k, config, source_id) ==
  IF k > Len(order) THEN st
  ELSE MapRows(MapRow(st, df_valid, order[k], config, source_id),
               df_valid, order, k + 1, config, source_id)

\* what transform() returns (valid_records, errors, stats) and, to state
\* properties, what it did on the way: validation_errors is the error list
\* after the validation rules, df_valid the frame the mapping read,
\* derived, hooks and valid_index as above, structural the batch having
\* been given up for missing columns
RetTransform(valid_records, errors, total_raw, validation_errors, df_valid, derived, hooks, valid_index, structural) ==
  [valid_records |-> valid_records, errors |-> errors,
   stats |-> [total_raw |-> total_raw, valid |-> Len(valid_records),
              errors |-> Len(errors)],
   validation_errors |-> validation_errors, df_valid |-> df_valid,
   derived |-> derived, hooks |-> hooks, valid_index |-> valid_index,
   structural |-> structural]

\* _error_response(start_time, msg, payload)
_error_response(msg) ==
  RetTransform(<<>>, <<ErrorRow(0, msg)>>, 0, <<>>, DataFrame(<<>>),
               <<>>, <<>>, <<>>, TRUE)

\* step 7 of transform(): map the rows of df_valid when the config has a
\* fact_mapping, and build the result
TransformDerived(d, validation_errors, config, source_id, total_raw) ==
  IF config.fact_mapping # PyNoneDict
    THEN
      LET st == MapRows(MapState(d.error_rows, <<>>, <<>>, <<>>), d.df_valid,
                        Ascending(d.df_valid.index), 1, config, source_id)
      IN  RetTransform(st.valid_records, st.error_rows, total_raw,
                       validation_errors, d.df_valid, d.derived, st.hooks,
                       st.valid_index, FALSE)
    ELSE RetTransform(<<>>, d.error_rows, total_raw, validation_errors,
                      d.df_valid, d.derived, <<>>, <<>>, FALSE)

\* steps 5b and 6 of transform(): drop the rows the rules flagged and
\* derive the columns
TransformValidated(v, config, source_id, total_raw) ==
  TransformDerived(Derive(Drop(v.df, InvalidIndices(v.df, v.error_rows)),
                          config.column_derivations, 1, v.error_rows, <<>>),
                   v.error_rows, config, source_id, total_raw)

\* a transform() that asks for no column
NoRequiredCols(config) == {}

\* required_cols of step 5
RequiredCols(config) ==
  {config.column_validations[k].column : k \in DOMAIN config.column_validations}
  \cup UNION {SeqToSet(config.column_derivations[k].source_columns) :
                k \in DOMAIN config.column_derivations}

\* ApiTransformer.transform from the extracted records on.  The common
\* cleaning of step 4.5 reads transform_config.not_null_columns, which a
\* TransformationConfig does not have: the AttributeError is caught and
\* the frame goes on as it was built.
transform(rows, config, source_id) ==
  IF rows = <<>>
    THEN RetTransform(<<>>, <<>>, 0, <<>>, DataFrame(<<>>), <<>>, <<>>, <<>>, FALSE)
  ELSE IF RequiredCols(config) \ DataFrame(rows).columns # {}
    THEN _error_response("Columnas faltantes")
  ELSE TransformValidated(ApplyValidations(DataFrame(rows),
                                           config.column_validations, 1, <<>>),
                          config, source_id, Len(rows))

\* REGALIAS_CONFIG, with the mapped columns the rows of the model carry
REGALIAS_CONFIG ==
  [source_id |-> "api_regalias",
   column_validations |->
     <<[column |-> "mes", rule |-> "range",
        error_message |-> "Mes fuera de rango (1-12)",
        params |-> [min |-> 1, max |-> 12]],
       [column |-> "tipohidrocarburo", rule |-> "enum",
        error_message |-> "Tipo hidrocarburo inválido",
        params |-> [values |-> {"G", "O"}]],
       [column |-> "preciohidrocarburousd", rule |-> "non_negative",
        error_message |-> "Precio negativo", params |-> EmptyDict],
       [column |-> "porcregalia", rule |-> "between_0_100",
        error_message |-> "Porcentaje regalía fuera de rango",
        params |-> EmptyDict]>>,
   column_derivations |->
     <<[target_column |-> "tiempo_fecha", source_columns |-> <<"a_o", "mes">>,
        function |-> "_derive_fecha_regalias"]>>,
   fact_mapping |->
     [fact_table |-> "fact_regalias",
      column_mapping |->
        [tiempo_fecha |-> [str |-> "tiempo_fecha"],
         campo_nombre |-> [str |-> "campo"],
         contrato |-> [str |-> "contrato"],
         tipo_hidrocarburo |-> [str |-> "tipohidrocarburo"],
         precio_usd |-> [str |-> "preciohidrocarburousd"],
         porcentaje_regalia |-> [str |-> "porcregalia"],
         unidad |-> [str |-> "Bls/Kpc"]],
      dimension_mappings |->
        [tiempo |-> [fecha |-> [str |-> "tiempo_fecha"],
                     anio |-> [str |-> "a_o"],
                     mes |-> [str |-> "mes"],
                     es_proyeccion |-> [const |-> "False"]],
         campo |-> [nombre_campo |-> [str |-> "campo"],
                    contrato |-> [str |-> "contrato"],
                    activo |-> [const |-> "True"]]]],
   custom_validator |-> "_validate_regalias_coherencia",
   custom_transformer |-> PyNone]

\* a registered config with a second derivation, declared first
TwoDerivations ==
  [REGALIAS_CONFIG EXCEPT
     !.column_derivations =
        <<[target_column |-> "anio", source_columns |-> <<"a_o">>,
           function |-> "int_anio"]>> \o @]

\* a registered config with both custom hooks
HooksConfig ==
  [REGALIAS_CONFIG EXCEPT !.custom_validator = "only_gas",
                          !.custom_transformer = "copy_price"]

\* a source too irregular for declarative mapping: hooks, no fact_mapping
HooksOnly == [HooksConfig EXCEPT !.fact_mapping = PyNoneDict]

\* a registered config that also declares the price NOT_NULL
NotNullPrice ==
  [REGALIAS_CONFIG EXCEPT
     !.column_validations =
        <<[column |-> "preciohidrocarburousd", rule |-> "not_null",
           error_message |-> "Precio nulo", params |-> EmptyDict]>> \o @]

\* CONFIG_REGISTRY
CONFIG_REGISTRY ==
  {REGALIAS_CONFIG, TwoDerivations, HooksConfig, HooksOnly, NotNullPrice}

\* a raw record of the ANH royalties API
RawRow(a_o, mes, tipohidrocarburo, preciohidrocarburousd) ==
  [a_o |-> a_o, mes |-> mes, tipohidrocarburo |-> tipohidrocarburo,
   preciohidrocarburousd |-> preciohidrocarburousd, porcregalia |-> "10",
   campo |-> "ALFA"]

\* the raw records a batch is made of: a clean one, rows breaking one
\* rule or two, a year that is no number, a record with no price key, one
\* with no year key, an infinite price, a price that is no number and an
\* oil row
RawRows ==
  {RawRow("2024", "1", "G", "10"),
   RawRow("2024", "13", "G", "10"),
   RawRow("2024", "13", "X", "10"),
   RawRow("2024", "1", "G", "-1"),
   RawRow("junk", "1", "G", "10"),
   [c \in {"a_o", "mes", "tipohidrocarburo", "porcregalia", "campo"} |->
      RawRow("2024", "1", "G", "10")[c]],
   [c \in {"mes", "tipohidrocarburo", "preciohidrocarburousd", "porcregalia",
            "campo"} |-> RawRow("2024", "1", "G", "10")[c]],
   RawRow("2024", "1", "G", "inf"),
   RawRow("2024", "1", "G", "N/D"),
   RawRow("2024", "1", "O", "10")}

RawBatches == UNION {[1..n -> RawRows] : n \in 0..MaxRows}

InitTransform ==
  /\ db = InitDb
  /\ rs = NewResolver(TRUE)
  /\ ld = NewLoader(TRUE, 1)
  /\ records \in RawBatches
  /\ loads = 0
  /\ last = NoCall
  /\ prev = NoCall
  /\ run = <<>>

\* ApiTransformer().transform(raw_data, source_config)
Transform(config) ==
  /\ \E r \in {transform(records, config, config.source_id)} :
       last' = [op |-> "transform", config |-> config, input |-> records,
                df |-> DataFrame(records), result |-> r]
  /\ UNCHANGED <<db, rs, ld, records, loads, prev, run>>

NextTransform == \E config \in CONFIG_REGISTRY : Transform(config)

SpecTransform == InitTransform /\ [][NextTransform]_vars

(* ------------------------------------------------------------------ *)
(* Properties of FactLoader.load                                       *)
(* ------------------------------------------------------------------ *)
FactTables == {"fact_regalias", "fact_demanda_gas", "fact_oferta_gas"}

DimTables == {"dim_tiempo", "dim_territorios", "dim_campos", "dim_resoluciones"}

\* the last call was a load() that returned
Loaded == last.op = "load" /\ ~last.raised

\* the last two calls were load() on the same list, the store behaving
\* the same way during both
Reloaded ==
  /\ last.op = "load"
  /\ prev.op = "load"
  /\ prev.input = last.input
  /\ prev.f = last.f

DimKey(t, r) ==
  CASE t = "dim_tiempo" -> <<r.fecha>>
    [] t = "dim_territorios" ->
         <<Upper(remove_accents(Strip(r.departamento))),
           Upper(remove_accents(Strip(r.municipio)))>>
    [] t = "dim_campos" -> <<r.nombre_campo>>
    [] t = "dim_resoluciones" -> <<r.numero_resolucion>>

SharesKey(i) ==
  /\ last.fact_records[i]._fact_table \in DOMAIN UNIQUE_COLUMNS_BY_TABLE
  /\ \E j \in 1..Len(last.fact_records) :
       j # i /\ SameDedupKey(last.fact_records[j], last.fact_records[i])

\* the last prepared record, in input order, with the key of record i
LastWithKey(i) ==
  last.fact_records[MaxOf({j \in 1..Len(last.fact_records) :
     SameDedupKey(last.fact_records[j], last.fact_records[i])})]

\* the batch sizes the store state is compared over: they cut the largest
\* input into single rows, into several batches and into one batch
BatchSizes == 1..(MaxBatch + 1)

\* C3: dedup is last-write-wins. Whenever two or more prepared records of
\* one load() share (fact table, unique columns of that table), exactly one
\* record with that key is handed to the upsert, it is the record that
\* comes last in input order, no statement sent to the store carries another
\* row for that key, and the fact tables end up the same for every
\* batch_size >= 1.
C3_DedupLastWriteWins ==
  Loaded =>
    /\ \A i \in 1..Len(last.fact_records) :
         SharesKey(i) =>
           /\ Cardinality({k \in 1..Len(last.unique_records) :
                SameDedupKey(last.unique_records[k], last.fact_records[i])}) = 1
           /\ \A k \in 1..Len(last.unique_records) :
                SameDedupKey(last.unique_records[k], last.fact_records[i])
                  => last.unique_records[k] = LastWithKey(i)
           /\ \A n \in 1..Len(last.sent) : \A m \in 1..Len(last.sent[n].rows) :
                (/\ last.sent[n].table = last.fact_records[i]._fact_table
                 /\ SameKey(last.sent[n].rows[m], last.fact_records[i],
                            SeqToSet(DedupColumns(last.sent[n].table))))
                  => last.sent[n].rows[m] = PopFactTable(LastWithKey(i))
                     /\ \A m2 \in 1..Len(last.sent[n].rows) :
                          SameKey(last.sent[n].rows[m2], last.sent[n].rows[m],
                                  SeqToSet(DedupColumns(last.sent[n].table)))
                            => m2 = m
    /\ \A b \in BatchSizes : \A t \in FactTables :
         _batch_upsert(last.pre_db, [ld EXCEPT !.batch_size = b],
                       last.unique_records, last.f).db[t] = db[t]

\* two records of one key with different prices were prepared, the later
\* one was sent and is the row the store holds
C3_Witness ==
  /\ Loaded
  /\ Len(last.fact_records) = 2
  /\ SharesKey(1)
  /\ last.fact_records[1] # last.fact_records[2]
  /\ last.stats.duplicates_in_batch = 1
  /\ last.stats.inserted = 1
  /\ \E r \in db.fact_regalias :
       /\ r.precio_usd = last.fact_records[2].precio_usd
       /\ r.precio_usd # last.fact_records[1].precio_usd

\* the statements of the last load, by kind and outcome
Statements(kind, ok) ==
  {n \in 1..Len(last.sent) : last.sent[n].kind = kind /\ last.sent[n].ok = ok}

\* the store holds the row a statement carried
Persisted(table, row) ==
  \E r \in db[table] : \A c \in DOMAIN row : c \in DOMAIN r /\ r[c] = row[c]

\* C4: batch-then-row fallback. When the upsert of a batch fails, every
\* record of the batch is retried in a statement of its own exactly once
\* (and no record of a batch that succeeded is); each record whose own
\* upsert succeeds is in the store and counted as inserted, and the error
\* count grows by exactly the number of records whose own upsert fails too.
C4_BatchThenRowFallback ==
  Loaded =>
    /\ \A n \in Statements("batch", FALSE) : \A m \in 1..Len(last.sent[n].rows) :
         Cardinality({k \in 1..Len(last.sent) :
            /\ last.sent[k].kind = "row"
            /\ last.sent[k].table = last.sent[n].table
            /\ last.sent[k].batch = last.sent[n].batch
            /\ last.sent[k].rows = <<last.sent[n].rows[m]>>}) = 1
    /\ \A k \in Statements("row", TRUE) \cup Statements("row", FALSE) :
         \E n \in Statements("batch", FALSE) :
           /\ n < k
           /\ last.sent[n].table = last.sent[k].table
           /\ last.sent[n].batch = last.sent[k].batch
    /\ \A k \in Statements("row", TRUE) :
         Persisted(last.sent[k].table, last.sent[k].rows[1])
    /\ last.unique_records # <<>> =>
         last.stats.inserted =
           Cardinality(Statements("row", TRUE))
           + Cardinality({<<n, m>> \in (1..Len(last.sent)) \X (1..MaxLen + 1) :
                n \in Statements("batch", TRUE) /\ m <= Len(last.sent[n].rows)})
    /\ ld.client_ok =>
         last.stats.errors =
           last.pre_stats.errors
           + Cardinality({i \in 1..Len(last.log) : last.log[i].outcome = "exception"})
           + Cardinality(Statements("row", FALSE))

\* a batch of two rows failed over one row the store refuses: both rows
\* were retried, the good one is in the store, the other is the only error
C4_Witness ==
  /\ Loaded
  /\ last.f = NoFault
  /\ \E n \in Statements("batch", FALSE) : Len(last.sent[n].rows) = 2
  /\ Cardinality(Statements("row", TRUE)) = 1
  /\ Cardinality(Statements("row", FALSE)) = 1
  /\ last.stats.inserted = 1
  /\ last.stats.errors = 1
  /\ last.status = "partial"
  /\ Cardinality(db.fact_regalias) = 1

\* the last call was a load() on a freshly constructed loader that returned
LoadedFresh == Loaded /\ last.pre_stats = NewStats

\* C5: load() returns `success` only when the run had zero errors,
\* `partial` when it had some errors and some inserts, and `error` whenever
\* the input was non-empty and zero rows were inserted.
C5_StatusAsSpecified ==
  LoadedFresh =>
    /\ last.status = "success" => last.stats.errors = 0
    /\ last.status = "partial" => last.stats.errors > 0 /\ last.stats.inserted > 0
    /\ (last.input # <<>> /\ last.stats.inserted = 0) => last.status = "error"

\* C6: after load() on a freshly constructed loader every input record is
\* in exactly one counter: total_processed = inserted + duplicates_in_batch
\* + skipped_no_tiempo + skipped_no_campo + errors.
C6_EveryRecordCounted ==
  LoadedFresh =>
    last.stats.total_processed =
      last.stats.inserted + last.stats.duplicates_in_batch
      + last.stats.skipped_no_tiempo + last.stats.skipped_no_campo
      + last.stats.errors

\* the records of the last load the resolver answered for, with a null
\* time FK
NoTiempo ==
  {i \in 1..Len(last.log) :
     last.log[i].outcome # "exception" /\ last.log[i].fks.tiempo_id = NoId}

\* the fact_regalias records the resolver answered for with a null field FK
NoCampo ==
  {i \in 1..Len(last.log) :
     /\ last.log[i].outcome # "exception"
     /\ last.input[i].fact_table = "fact_regalias"
     /\ last.log[i].fks.campo_id = NoId}

\* every fact row has a tiempo_id and every fact_regalias row a campo_id
FksNotNull ==
  /\ \A t \in FactTables : \A r \in db[t] :
       "tiempo_id" \in DOMAIN r /\ r.tiempo_id # NoId
  /\ \A r \in db.fact_regalias : "campo_id" \in DOMAIN r /\ r.campo_id # NoId

\* C7 as stated: a record whose time FK cannot be resolved is never
\* persisted and adds one to skipped_no_tiempo; a fact_regalias record whose
\* field FK cannot be resolved is never persisted and adds one to
\* skipped_no_campo; every fact row has a tiempo_id and every fact_regalias
\* row a campo_id.
C7_AsStated ==
  Loaded =>
    /\ \A i \in NoTiempo \cup NoCampo : last.log[i].outcome = "skipped"
    /\ last.stats.skipped_no_tiempo
         = last.pre_stats.skipped_no_tiempo + Cardinality(NoTiempo)
    /\ last.stats.skipped_no_campo
         = last.pre_stats.skipped_no_campo + Cardinality(NoCampo)
    /\ FksNotNull

\* C7: a record the resolver returns a null time FK for is never persisted
\* and adds one to skipped_no_tiempo; a fact_regalias record with a time FK
\* and a null field FK is never persisted and adds one to skipped_no_campo
\* (a record missing both is counted under skipped_no_tiempo only); every
\* fact row has a tiempo_id and every fact_regalias row a campo_id.
C7_SkippedOnceByFirstMissingFk ==
  Loaded =>
    /\ \A i \in NoTiempo \cup NoCampo : last.log[i].outcome = "skipped"
    /\ last.stats.skipped_no_tiempo
         = last.pre_stats.skipped_no_tiempo + Cardinality(NoTiempo)
    /\ last.stats.skipped_no_campo
         = last.pre_stats.skipped_no_campo + Cardinality(NoCampo \ NoTiempo)
    /\ FksNotNull

\* a load of one fact_regalias record with neither date nor field and one
\* with a date and no field: each was left out and counted once
C7_Witness ==
  /\ Loaded
  /\ NoTiempo \cap NoCampo # {}
  /\ NoCampo \ NoTiempo # {}
  /\ last.stats.skipped_no_tiempo = last.pre_stats.skipped_no_tiempo + 1
  /\ last.stats.skipped_no_campo = last.pre_stats.skipped_no_campo + 1

\* C8: no exception leaves FactLoader.load(), whatever the records and
\* whatever the store does.
C8_NoExceptionEscapes == last.op = "load" => ~last.raised

(* ------------------------------------------------------------------ *)
(* Properties of a resolver used on its own                            *)
(* ------------------------------------------------------------------ *)
\* the last two calls were op on one key that is not empty, the store
\* answering the first of them and holding no row for the key before it
Twice(op) ==
  /\ last.op = op
  /\ prev.op = op
  /\ last.key = prev.key
  /\ last.key # ""
  /\ rs.client_ok
  /\ prev.f.dim_upsert # "error"
  /\ prev.unknown

\* the two calls returned one id, the key has exactly one row, and the
\* second call found the key in the cache and wrote nothing
Converged(table, column, cache) ==
  /\ last.ret # NoId
  /\ last.ret = prev.ret
  /\ Cardinality({r \in db[table] : r[column] = last.key}) = 1
  /\ \A r \in db[table] : r[column] = last.key => r.id = last.ret
  /\ last.key \in DOMAIN cache
  /\ cache[last.key] = last.ret
  /\ db = last.pre_db
  /\ rs = last.pre_rs

\* C9: on one resolver, two calls in sequence of resolve_or_create_campo_id
\* with the same previously unknown field name return the same non-null id,
\* leave exactly one dim_campos row for it, and the second call is served
\* from the cache without a store write; the same for
\* resolve_or_create_resolucion_id and a resolution number.
C9_ResolveOrCreateConverges ==
  /\ Twice("campo")
       => Converged("dim_campos", "nombre_campo", last.pre_rs.campo_cache)
  /\ Twice("resolucion")
       => Converged("dim_resoluciones", "numero_resolucion",
                    last.pre_rs.resolucion_cache)

\* a new resolution number resolved twice on a resolver that had created
\* one field before
C9_Witness ==
  /\ Twice("resolucion")
  /\ prev.f = NoFault
  /\ last.ret # NoId
  /\ rs.stats.resolucion_inserts = 1
  /\ Cardinality(db.dim_resoluciones) = 1
  /\ rs.stats.campo_inserts = 1
  /\ "BETA" \in DOMAIN rs.campo_cache
  /\ Cardinality({r \in db.dim_campos : r.nombre_campo = "BETA"}) = 1

(* ------------------------------------------------------------------ *)
(* Properties of two concurrent runs                                   *)
(* ------------------------------------------------------------------ *)
\* C10: when two runs, each with its own resolver, resolve-or-create the
\* same previously unknown field name (or resolution number), under any
\* interleaving of their store calls the store never holds two rows for the
\* key, and once both are done it holds exactly one, whose id both runs
\* returned and cached; a run whose upsert raised a duplicate-key error got
\* that id from its lookup, not null.
C10_ConcurrentConvergence ==
  \A i \in DOMAIN run :
    /\ Cardinality(ConcRows(run[i])) <= 1
    /\ run[i].pc = "done" =>
         /\ Cardinality(ConcRows(run[i])) = 1
         /\ run[i].ret # NoId
         /\ \A x \in ConcRows(run[i]) : x.id = run[i].ret
         /\ ConcKey(run[i]) \in DOMAIN ConcCache(run[i])
         /\ ConcCache(run[i])[ConcKey(run[i])] = run[i].ret
         /\ \A j \in DOMAIN run : run[j].pc = "done" => run[j].ret = run[i].ret

\* both runs are done on a field name they spell differently: one created
\* the row, the other's upsert raised and its lookup found the row
C10_Witness ==
  /\ DOMAIN run = Runs
  /\ \A i \in Runs : run[i].pc = "done" /\ run[i].dim = "campo"
  /\ run[1].raw # run[2].raw
  /\ \E i, j \in Runs : run[i].via = "upsert" /\ run[j].via = "lookup"
  /\ run[1].ret = run[2].ret
  /\ run[1].ret # NoId

(* ------------------------------------------------------------------ *)
(* Time and place dimensions                                           *)
(* ------------------------------------------------------------------ *)
\* C11: the time and place dimensions are read-only for the engine. No
\* sequence of load() calls (each preloading the caches and resolving the
\* date and the place of every record through resolve_all_for_record)
\* inserts, updates or deletes a row of dim_tiempo or dim_territorios, also
\* when the key a record names is absent from the store.
C11_TimeAndPlaceReadOnly ==
  /\ db.dim_tiempo = InitDb.dim_tiempo
  /\ db.dim_territorios = InitDb.dim_territorios

\* a load over a healthy store of a record whose month and whose place the
\* store does not hold, and of one it wrote a fact row for
C11_Witness ==
  /\ last.op = "load"
  /\ last.f = NoFault
  /\ ~last.raised
  /\ rs.client_ok
  /\ \E i \in DOMAIN last.input :
       /\ last.input[i].fact_table = "fact_regalias"
       /\ last.input[i].dimensions.tiempo.fecha = "2024-02-01"
       /\ last.input[i].dimensions.territorio.departamento = "NN"
       /\ last.log[i].fks.tiempo_id = NoId
       /\ last.log[i].fks.territorio_id = NoId
  /\ <<"NN", "NN">> \in rs.territorios_not_found
  /\ last.stats.inserted > 0

\* the spellings of one name: they differ only in letter case, diacritics
\* or surrounding whitespace
PlaceForms ==
  {{"Bogotá", "BOGOTÁ", "BOGOTA", " bogotá "},
   {"Usaquén", "USAQUÉN", "USAQUEN", "usaquén"}}

\* two (departamento, municipio) pairs spelling one place
SamePlace(p, q) ==
  \A i \in 1..2 : p[i] = q[i] \/ \E c \in PlaceForms : p[i] \in c /\ q[i] \in c

\* the store rows that name the place p
PlaceRows(p) ==
  {r \in db.dim_territorios : SamePlace(<<r.departamento, r.municipio>>, p)}

\* C12: place normalization equivalence. Two (department, municipality)
\* inputs that differ only in letter case, diacritics or surrounding
\* whitespace get the same result from resolve_territorio_id, asked of the
\* same resolver or one after the other; and once the place cache holds
\* entries (preloaded, or filled by the fallback query of the call), the
\* result for a place a store row names is that row's id.
C12_PlaceNormalization ==
  /\ \A p, q \in PlaceInputs, f \in {NoFault, ReadsDown} :
       SamePlace(p, q) =>
         resolve_territorio_id(db, rs, p[1], p[2], f).ret =
           resolve_territorio_id(db, rs, q[1], q[2], f).ret
  /\ (last.op = "territorio" /\ prev.op = "territorio"
        /\ SamePlace(prev.key, last.key) /\ prev.f = last.f)
       => last.ret = prev.ret
  /\ (last.op = "territorio" /\ DOMAIN rs.territorio_cache # {})
       => \A r \in PlaceRows(last.key) : last.ret = r.id

\* the same place asked for twice in two spellings, neither the store's:
\* the first call filled the cache by the fallback query, the second hit it
C12_Witness ==
  /\ last.op = "territorio"
  /\ prev.op = "territorio"
  /\ last.key # prev.key
  /\ SamePlace(prev.key, last.key)
  /\ ~prev.filled
  /\ \E r \in PlaceRows(last.key) :
       /\ <<r.departamento, r.municipio>> \notin {last.key, prev.key}
       /\ last.ret = r.id
       /\ prev.ret = r.id

(* ------------------------------------------------------------------ *)
(* The key of a fact table                                             *)
(* ------------------------------------------------------------------ *)
\* the prepared records of the last load that belong to table t, in order
PreparedOf(seq, t) == SelectSeq(seq, LAMBDA r : r._fact_table = t)

\* C20: the key tuple the loader uses for a fact table, to deduplicate its
\* records and as the upsert conflict target, is the tuple declared for the
\* table in UNIQUE_COLUMNS_BY_TABLE; for a table that has none declared the
\* loader substitutes no default or inferred key, so it merges no two
\* records of such a table.
C20_DeclaredKeyOnly ==
  Loaded =>
    \A i \in DOMAIN last.fact_records :
      LET t == last.fact_records[i]._fact_table
      IN  /\ t \in DOMAIN UNIQUE_COLUMNS_BY_TABLE =>
               /\ DedupColumns(t) = SplitComma(UNIQUE_COLUMNS_BY_TABLE[t])
               /\ ConflictTarget(t) = UNIQUE_COLUMNS_BY_TABLE[t]
          /\ t \notin DOMAIN UNIQUE_COLUMNS_BY_TABLE =>
               PreparedOf(last.unique_records, t) = PreparedOf(last.fact_records, t)

(* ------------------------------------------------------------------ *)
(* Properties of ApiTransformer.transform                              *)
(* ------------------------------------------------------------------ *)
\* the last call was a transform() that went past the column check
Transformed == last.op = "transform" /\ ~last.result.structural

\* the rows a validation rule flagged
Flagged ==
  {last.result.validation_errors[k].record_index :
     k \in DOMAIN last.result.validation_errors}

\* the entries of the error list for row i
EntriesOf(i) ==
  {k \in DOMAIN last.result.errors : last.result.errors[k].record_index = i}

\* the place of a derivation among the declared ones
DeclaredAt(target) ==
  CHOOSE k \in DOMAIN last.config.column_derivations :
    last.config.column_derivations[k].target_column = target

\* C13: a row flagged invalid by a validation rule is never passed to a
\* derivation function and never appears in valid_records; derivations
\* are applied only to rows that have no validation error, one derivation
\* after the other in the order they are declared.
C13_FlaggedRowsExcluded ==
  Transformed =>
    /\ \A k \in DOMAIN last.result.derived : last.result.derived[k][2] \notin Flagged
    /\ \A k \in DOMAIN last.result.valid_index :
         last.result.valid_index[k] \notin Flagged
    /\ \A j, k \in DOMAIN last.result.derived :
         j < k => DeclaredAt(last.result.derived[j][1])
                    <= DeclaredAt(last.result.derived[k][1])

\* a batch of a flagged row and a clean one under two derivations: both
\* derivations ran on the clean row, which became the one valid record
C13_Witness ==
  /\ Transformed
  /\ last.config = TwoDerivations
  /\ Flagged # {}
  /\ Len(last.input) = 2
  /\ Len(last.result.derived) = 2
  /\ last.result.derived[1][1] # last.result.derived[2][1]
  /\ Len(last.result.valid_records) = 1

\* C14: each invalid row is recorded exactly once. A row that violates
\* one or several validation rules has exactly one entry in the error
\* list, so the number of validation errors equals the number of distinct
\* invalid rows.
C14_OneEntryPerInvalidRow ==
  Transformed =>
    /\ \A i \in Flagged : Cardinality(EntriesOf(i)) = 1
    /\ Len(last.result.validation_errors) = Cardinality(Flagged)

\* the columns a config's validation rules and derivations name
DeclaredColumns(config) ==
  {config.column_validations[k].column : k \in DOMAIN config.column_validations}
  \cup {c \in {"a_o", "mes", "tipohidrocarburo", "preciohidrocarburousd",
               "porcregalia", "campo"} :
          \E k \in DOMAIN config.column_derivations :
            \E j \in DOMAIN config.column_derivations[k].source_columns :
              config.column_derivations[k].source_columns[j] = c}

\* transform() gave the batch up with one error and did nothing else
GivenUp ==
  /\ last.result.valid_records = <<>>
  /\ Len(last.result.errors) = 1
  /\ last.result.errors[1].error = "Columnas faltantes"
  /\ last.result.stats.errors = 1
  /\ last.result.validation_errors = <<>>
  /\ last.result.derived = <<>>
  /\ last.result.hooks = <<>>

\* C15 as stated: if any column named by a validation rule or by a
\* derivation's source_columns is absent from the batch, transform()
\* returns zero valid records and exactly one error entry describing the
\* missing columns, and performs no row-level validation, derivation or
\* mapping.
C15_AsStated ==
  (last.op = "transform" /\ DeclaredColumns(last.config) \ last.df.columns # {})
    => GivenUp

\* C15, amended: the same for a batch that holds at least one record; an
\* empty batch returns no valid record and no error.
C15_StructuralError ==
  /\ (last.op = "transform" /\ last.input # <<>>
        /\ DeclaredColumns(last.config) \ last.df.columns # {})
       => GivenUp
  /\ (last.op = "transform" /\ last.input = <<>>)
       => last.result.valid_records = <<>> /\ last.result.errors = <<>>

\* a batch of two records, neither with a year key, the year being named
\* by a derivation only
C15_Witness ==
  /\ last.op = "transform"
  /\ Len(last.input) = 2
  /\ "a_o" \notin last.df.columns
  /\ last.result.structural
  /\ GivenUp

\* the rows recorded with a derivation error
DerivationFailed ==
  {last.result.errors[k].record_index :
     k \in {j \in DOMAIN last.result.errors :
              last.result.errors[j].error = "Error derivando"}}

\* the rows valid records were built from
ValidRows == {last.result.valid_index[k] : k \in DOMAIN last.result.valid_index}

\* C16: derivation failure. When a derivation function raises, exactly
\* the rows of the frame it was applied to are recorded as errors, and
\* none of those rows appears in valid_records.
C16_DerivationFailure ==
  (Transformed /\ DerivationFailed # {}) =>
    /\ DerivationFailed = last.result.df_valid.index
    /\ DerivationFailed \cap ValidRows = {}

\* C17: sanitization. No record emitted in valid_records, built by the
\* declarative mapping or returned by a custom transformer, holds a NaN or
\* an infinite value in data or in a dimension map.
C17_NoNaNEmitted ==
  Transformed =>
    \A k \in DOMAIN last.result.valid_records :
      LET rec == last.result.valid_records[k]
      IN  /\ \A c \in DOMAIN rec.data : rec.data[c] \notin {"nan", "inf", "-inf"}
          /\ \A d \in DOMAIN rec.dimensions : \A c \in DOMAIN rec.dimensions[d] :
               rec.dimensions[d][c] \notin {"nan", "inf", "-inf"}

\* what the column-or-literal rule gives for a source on a row: the row's
\* cell (null for NaN and infinity) when the frame has a column of that
\* name, the source itself otherwise
ColumnOrLiteral(source, idx) ==
  IF "str" \in DOMAIN source
    THEN IF source.str \in last.result.df_valid.columns
           THEN LET v == last.result.df_valid.row[idx][source.str]
                IN  IF v \in {"nan", "inf", "-inf"} THEN PyNone ELSE v
           ELSE source.str
    ELSE source.const

\* the last call mapped its rows declaratively
Mapped ==
  /\ Transformed
  /\ last.config.fact_mapping # PyNoneDict
  /\ last.config.custom_transformer = PyNone

\* C18: column-or-literal mapping. For every entry (destination, source)
\* of the fact column_mapping and of each DimensionMapping's
\* column_mapping, the destination value in every output record is the
\* row's value of column `source` (sanitized) when the row has a column of
\* that name, and otherwise `source` itself as a literal constant, also
\* for literals that are no strings.
C18_ColumnOrLiteral ==
  Mapped =>
    \A k \in DOMAIN last.result.valid_records :
      LET rec == last.result.valid_records[k]
          idx == last.result.valid_index[k]
          mapping == last.config.fact_mapping
      IN  /\ rec.fact_table = mapping.fact_table
          /\ DOMAIN rec.data = DOMAIN mapping.column_mapping
          /\ \A t \in DOMAIN mapping.column_mapping :
               rec.data[t] = ColumnOrLiteral(mapping.column_mapping[t], idx)
          /\ DOMAIN rec.dimensions = DOMAIN mapping.dimension_mappings
          /\ \A d \in DOMAIN mapping.dimension_mappings :
               /\ DOMAIN rec.dimensions[d] = DOMAIN mapping.dimension_mappings[d]
               /\ \A t \in DOMAIN mapping.dimension_mappings[d] :
                    rec.dimensions[d][t] =
                      ColumnOrLiteral(mapping.dimension_mappings[d][t], idx)

\* a record mapped from a row with no price: columns copied, the price
\* null, the unit and the contract taken as literals, the flags too
C18_Witness ==
  /\ Mapped
  /\ \E k \in DOMAIN last.result.valid_records :
       LET rec == last.result.valid_records[k]
       IN  /\ rec.data.campo_nombre = "ALFA"
           /\ rec.data.tiempo_fecha = "2024-01-01"
           /\ rec.data.precio_usd = PyNone
           /\ rec.data.unidad = "Bls/Kpc"
           /\ rec.data.contrato = "contrato"
           /\ rec.dimensions.tiempo.es_proyeccion = "False"
           /\ rec.dimensions.campo.activo = "True"
           /\ rec.dimensions.tiempo.anio = "2024"

\* the rows the mapping step read
ValidFrame == last.result.df_valid.index

\* the places in hooks of what ran for row i
HookAt(what, i) ==
  {k \in DOMAIN last.result.hooks : last.result.hooks[k] = <<what, i>>}

\* row i has an entry in the error list with the custom validator's text
Refused(i) ==
  \E k \in DOMAIN last.result.errors :
    /\ last.result.errors[k].record_index = i
    /\ last.result.errors[k].error = "No es gas"

\* C19: custom hook ordering. For each valid row the custom validator,
\* when configured, is called before any mapping; if it returns an error
\* the row is recorded as an error and neither the custom transformer nor
\* the declarative mapping runs for it; otherwise the custom transformer,
\* when configured, produces the record and the declarative mapping is not
\* used.
C19_HookOrdering ==
  Transformed =>
    \A i \in ValidFrame :
      /\ last.config.custom_validator # PyNone =>
           /\ Cardinality(HookAt("validator", i)) = 1
           /\ \A v \in HookAt("validator", i) :
                \A m \in HookAt("transformer", i) \cup HookAt("mapping", i) : v < m
      /\ Refused(i) =>
           /\ HookAt("transformer", i) = {}
           /\ HookAt("mapping", i) = {}
           /\ i \notin ValidRows
      /\ (last.config.custom_transformer # PyNone /\ ~Refused(i)) =>
           /\ Cardinality(HookAt("transformer", i)) = 1
           /\ HookAt("mapping", i) = {}
           /\ i \in ValidRows

(* ------------------------------------------------------------------ *)
(* The statements a load sends                                         *)
(* ------------------------------------------------------------------ *)
\* the rows of a statement come from the unique records of its table
RowsOfTable(st) ==
  \A i \in DOMAIN st.rows :
    \E k \in DOMAIN last.unique_records :
      /\ last.unique_records[k]._fact_table = st.table
      /\ PopFactTable(last.unique_records[k]) = st.rows[i]

\* C21: every upsert statement the loader issues carries rows of a single
\* fact table, at most batch_size rows, and no two rows in it share that
\* table's conflict-key values, also when one load() call carries records
\* for several fact tables.
C21_WellFormedStatements ==
  Loaded =>
    \A s \in DOMAIN last.sent :
      LET st == last.sent[s]
      IN  /\ st.table \in DOMAIN UNIQUE_COLUMNS_BY_TABLE
          /\ st.on_conflict = UNIQUE_COLUMNS_BY_TABLE[st.table]
          /\ RowsOfTable(st)
          /\ Len(st.rows) >= 1
          /\ Len(st.rows) <= (IF st.kind = "batch" THEN ld.batch_size ELSE 1)
          /\ \A i, j \in DOMAIN st.rows :
               i # j => ~SameKey(st.rows[i], st.rows[j],
                                 SeqToSet(SplitComma(UNIQUE_COLUMNS_BY_TABLE[st.table])))

\* one load() sends a statement to each of two fact tables
C21_Witness ==
  /\ Loaded
  /\ \E s, t \in DOMAIN last.sent :
       /\ last.sent[s].table = "fact_regalias"
       /\ last.sent[t].table = "fact_demanda_gas"
       /\ last.sent[s].ok /\ last.sent[t].ok

(* ------------------------------------------------------------------ *)
(* The validation rules                                                *)
(* ------------------------------------------------------------------ *)
\* a cell holds what the raw record held: the same text, or the number
\* the text spells
SameValue(raw, seen) == seen = raw \/ (seen # "nan" /\ seen = to_numeric(raw))

\* C22: applying the validation rules never mutates valid rows. For every
\* row that passes all rules, the value of every column seen by derivation
\* and mapping equals the value in the raw input record.
C22_ValidRowsNotMutated ==
  Transformed =>
    \A i \in last.result.df_valid.index :
      \A c \in DOMAIN last.input[i + 1] :
        SameValue(last.input[i + 1][c], last.result.df_valid.row[i][c])

\* the number a raw cell spells, for the cells that spell one
Spelled(raw) == NumberOf[to_numeric(raw)]

\* a raw cell that spells a number
IsNumber(raw) == to_numeric(raw) \in DOMAIN NumberOf

\* a raw cell that is null or empty
IsNull(raw) == raw \in {"nan", "", PyNone}

\* the rule kinds decide these cells: not-null every cell, enum every
\* cell that is not null, the numeric kinds the cells that spell a number
Decides(validation, raw) ==
  CASE validation.rule = "not_null" -> TRUE
    [] validation.rule = "enum" -> ~IsNull(raw)
    [] OTHER -> IsNumber(raw)

\* the cell violates the rule
Violates(validation, raw) ==
  CASE validation.rule = "not_null" -> IsNull(raw)
    [] validation.rule = "enum" -> raw \notin validation.params.values
    [] validation.rule = "range" ->
         Spelled(raw) < validation.params.min \/ Spelled(raw) > validation.params.max
    [] validation.rule = "non_negative" -> Spelled(raw) < 0
    [] validation.rule = "between_0_100" -> Spelled(raw) < 0 \/ Spelled(raw) > 100

\* row i was reported under the rule's message
Reported(validation, i) ==
  \E k \in DOMAIN last.result.errors :
    /\ last.result.errors[k].record_index = i
    /\ last.result.errors[k].error = validation.error_message

\* C23: each declared rule kind flags exactly the rows that violate it,
\* independently of the other rows in the batch: not-null flags rows whose
\* column is null or empty, range flags values outside [min,max], enum
\* flags values outside the set, non-negative flags negative values,
\* percentage flags values outside [0,100]; a flagged row is excluded from
\* the output and reported as an error.
C23_RulesFlagViolations ==
  Transformed =>
    \A v \in DOMAIN last.config.column_validations :
      LET validation == last.config.column_validations[v]
      IN  \A i \in last.df.index :
            LET raw == last.df.row[i][validation.column]
            IN  Decides(validation, raw) =>
                  /\ Reported(validation, i) = Violates(validation, raw)
                  /\ Violates(validation, raw) => i \notin ValidRows

(* ------------------------------------------------------------------ *)
(* The resolver's caches and counters                                  *)
(* ------------------------------------------------------------------ *)
\* the normalized key of a place
PlaceKey(departamento, municipio) ==
  <<Upper(remove_accents(departamento)), Upper(remove_accents(municipio))>>

\* the months preload_tiempo_cache asks for by default
InWindow(r) == StrptimeTable[r.fecha][1] >= 2010 /\ StrptimeTable[r.fecha][1] <= 2036

\* the cache of a dimension holds every row of dates
CompleteFor(dates) ==
  /\ \A r \in dates :
       /\ StrptimeTable[r.fecha] \in DOMAIN rs.tiempo_cache
       /\ rs.tiempo_cache[StrptimeTable[r.fecha]] = r.id
  /\ \A r \in db.dim_territorios :
       /\ PlaceKey(r.departamento, r.municipio) \in DOMAIN rs.territorio_cache
       /\ \E x \in db.dim_territorios :
            /\ PlaceKey(x.departamento, x.municipio) =
                 PlaceKey(r.departamento, r.municipio)
            /\ rs.territorio_cache[PlaceKey(r.departamento, r.municipio)] = x.id
  /\ \A r \in db.dim_campos :
       /\ Upper(r.nombre_campo) \in DOMAIN rs.campo_cache
       /\ rs.campo_cache[Upper(r.nombre_campo)] = r.id
  /\ \A r \in db.dim_resoluciones :
       /\ r.numero_resolucion \in DOMAIN rs.resolucion_cache
       /\ rs.resolucion_cache[r.numero_resolucion] = r.id

\* the last call was a preload whose four queries were answered
Preloaded(call) ==
  call.op = "preload" /\ call.f.preload = {}

\* the rows of the store, before the last call, that the call's key names
Named ==
  CASE last.op = "tiempo" ->
         IF last.key \in DOMAIN StrptimeTable
           THEN {r \in last.pre_db.dim_tiempo :
                   r.fecha = Isoformat(FirstOfMonth(StrptimeTable[last.key]))}
           ELSE {}
    [] last.op = "territorio" ->
         {r \in last.pre_db.dim_territorios :
            PlaceKey(r.departamento, r.municipio) =
              PlaceKey(Strip(last.key[1]), Strip(last.key[2]))}
    [] last.op = "campo" ->
         {r \in last.pre_db.dim_campos : r.nombre_campo = last.key}
    [] last.op = "resolucion" ->
         {r \in last.pre_db.dim_resoluciones : r.numero_resolucion = last.key}
    [] OTHER -> {}

\* C24 as stated: after preload_all_caches() returns, each of the four
\* caches holds an entry for every row of its dimension table.
C24_AsStated ==
  last.op = "preload" => CompleteFor(db.dim_tiempo)

\* C24: after a preload_all_caches() whose queries were all answered, the
\* caches hold an entry for every row of dim_territorios, dim_campos and
\* dim_resoluciones and for every dim_tiempo row of 2010 to 2036, and
\* resolving right after it a key one of those rows names returns the
\* row's id from the cache, whatever the store does during the call.
C24_PreloadComplete ==
  /\ (Preloaded(last) /\ rs.client_ok) =>
       CompleteFor({r \in db.dim_tiempo : InWindow(r)})
  /\ (Preloaded(prev) /\ last.pre_rs.client_ok
        /\ last.op \in {"tiempo", "territorio", "campo", "resolucion"}
        /\ \E r \in Named : last.op = "tiempo" => InWindow(r)) =>
       /\ \E r \in Named : last.ret = r.id
       /\ db = last.pre_db
       /\ rs = last.pre_rs

\* a preloaded resolver returns the month's id while the store's reads fail
C24_Witness ==
  /\ Preloaded(prev) /\ last.pre_rs.client_ok
  /\ last.op = "tiempo" /\ last.key = "2024-01-15"
  /\ last.f = ReadsDown
  /\ last.ret = 1

\* the not-found set the resolver keeps for a dimension: it keeps one
\* for places and none for dates
NotFound(op) == IF op = "territorio" THEN rs.territorios_not_found ELSE {}

\* the key of the last call, as a not-found set would hold it
FailedKey ==
  IF last.op = "territorio"
    THEN PlaceKey(Strip(last.key[1]), Strip(last.key[2]))
    ELSE FirstOfMonth(StrptimeTable[last.key])

\* C25: whenever resolve_tiempo_id or resolve_territorio_id returns null
\* for a non-empty key after preload, that natural key is present in the
\* resolver's not-found set, and repeated failures of the same key are
\* recorded once.
C25_UnresolvedTracked ==
  (/\ Preloaded(prev)
   /\ last.op \in {"tiempo", "territorio"}
   /\ last.pre_rs.client_ok
   /\ last.f = NoFault
   /\ ~last.raised
   /\ last.ret = NoId) =>
     /\ FailedKey \in NotFound(last.op)
     /\ Cardinality(NotFound(last.op)) <=
          Cardinality(last.pre_rs.territorios_not_found) + 1

\* the ids of the rows of a table
Ids(rows) == {r.id : r \in rows}

\* C26: campo_inserts (resp. resolucion_inserts) and the list of created
\* ids equal the number and ids of the dim_campos (resp. dim_resoluciones)
\* rows that did not exist in the store before and were created by this
\* resolver instance, whether or not the caches were preloaded. Stated
\* call by call: a call adds to the counter and to the list exactly the
\* rows it created.
C26_CreationStatsExact ==
  /\ last.op = "campo" =>
       LET created == Ids(db.dim_campos) \ Ids(last.pre_db.dim_campos)
       IN  /\ rs.stats.campo_inserts =
                last.pre_rs.stats.campo_inserts + Cardinality(created)
           /\ Len(rs.campos_created_ids) =
                Len(last.pre_rs.campos_created_ids) + Cardinality(created)
           /\ SeqToSet(rs.campos_created_ids) =
                SeqToSet(last.pre_rs.campos_created_ids) \cup created
  /\ last.op = "resolucion" =>
       LET created == Ids(db.dim_resoluciones) \ Ids(last.pre_db.dim_resoluciones)
       IN  /\ rs.stats.resolucion_inserts =
                last.pre_rs.stats.resolucion_inserts + Cardinality(created)
           /\ Len(rs.resoluciones_created_ids) =
                Len(last.pre_rs.resoluciones_created_ids) + Cardinality(created)
           /\ SeqToSet(rs.resoluciones_created_ids) =
                SeqToSet(last.pre_rs.resoluciones_created_ids) \cup created

\* the key of the last call as the cache of its dimension holds it, and
\* that cache
CalledKey ==
  CASE last.op = "tiempo" -> FirstOfMonth(StrptimeTable[last.key])
    [] last.op = "territorio" -> PlaceKey(Strip(last.key[1]), Strip(last.key[2]))
    [] OTHER -> last.key

CalledCache ==
  CASE last.op = "tiempo" -> rs.tiempo_cache
    [] last.op = "territorio" -> rs.territorio_cache
    [] last.op = "campo" -> rs.campo_cache
    [] last.op = "resolucion" -> rs.resolucion_cache

\* C28: in every reachable state of a resolver, each entry of the tiempo,
\* territorio, campo and resolucion caches maps a normalized natural key
\* to the id of a row that exists in the store under that natural key; a
\* failed lookup or failed upsert never adds a cache entry for its key.
C28_CacheConsistent ==
  /\ \A k \in DOMAIN rs.tiempo_cache :
       \E r \in db.dim_tiempo :
         r.id = rs.tiempo_cache[k] /\ StrptimeTable[r.fecha] = k
  /\ \A k \in DOMAIN rs.territorio_cache :
       \E r \in db.dim_territorios :
         r.id = rs.territorio_cache[k] /\ PlaceKey(r.departamento, r.municipio) = k
  /\ \A k \in DOMAIN rs.campo_cache :
       \E r \in db.dim_campos :
         r.id = rs.campo_cache[k] /\ Upper(r.nombre_campo) = k
  /\ \A k \in DOMAIN rs.resolucion_cache :
       \E r \in db.dim_resoluciones :
         r.id = rs.resolucion_cache[k] /\ r.numero_resolucion = k
  /\ (last.op \in {"tiempo", "territorio", "campo", "resolucion"}
        /\ ~last.raised /\ last.ret = NoId) =>
       CalledKey \notin DOMAIN CalledCache

\* a resolver that cached a month, a place, a created field and a created
\* resolution, and whose last upsert failed
C28_Witness ==
  /\ DOMAIN rs.tiempo_cache # {}
  /\ DOMAIN rs.territorio_cache # {}
  /\ "BETA" \in DOMAIN rs.campo_cache
  /\ "R14" \notin DOMAIN rs.resolucion_cache
  /\ last.op = "resolucion" /\ last.key = "R14"
  /\ last.f = DimUpsertFails
  /\ last.ret = NoId

\* C30: when resolve_or_create_campo_id or
\* resolve_or_create_resolucion_id is called for a natural key whose row
\* already exists in the store, cached or not, it returns that row's id
\* and leaves the row's attributes unchanged.
C30_ExistingRowUnchanged ==
  (/\ last.op \in {"campo", "resolucion"}
   /\ last.pre_rs.client_ok
   /\ last.f.dim_upsert # "error"
   /\ Named # {}) =>
     \E r \in Named :
       /\ last.ret = r.id
       /\ r \in (IF last.op = "campo" THEN db.dim_campos ELSE db.dim_resoluciones)

(* ------------------------------------------------------------------ *)
(* Dropped records                                                      *)
(* ------------------------------------------------------------------ *)
\* C29: a record that load() drops, counted in skipped_no_tiempo or
\* skipped_no_campo, causes no write to the store: a load that drops
\* every record it was given, the store answering every request, leaves
\* every table as it was.
C29_DroppedWritesNothing ==
  (/\ Loaded
   /\ last.f = NoFault
   /\ last.log # <<>>
   /\ \A i \in 1..Len(last.log) : last.log[i].outcome = "skipped"
   /\ last.stats.skipped_no_tiempo + last.stats.skipped_no_campo
        = last.pre_stats.skipped_no_tiempo + last.pre_stats.skipped_no_campo
            + Len(last.log)) =>
     db = last.pre_db

(* ------------------------------------------------------------------ *)
(* Reuse after a reset                                                  *)
(* ------------------------------------------------------------------ *)
\* C27: after FactLoader.reset_stats() and DimensionResolver.clear_caches()
\* the loader's and the resolver's caches, not-found set, created-id
\* lists and counters equal those of a newly constructed pair.
C27_ResetRestoresFresh ==
  last.op = "reset" =>
    /\ ld = NewLoader(ld.client_ok, ld.batch_size)
    /\ rs = NewResolver(rs.client_ok)

====
